---- MODULE Spec2Model ----
(***************************************************************************)
(* sftpman: the mount lifecycle manager (src/manager.rs) over the OS mount *)
(* table, the local mount directories, the running sshfs processes and the *)
(* stored definition records.                                              *)
(*                                                                         *)
(* Paths are sequences of components whose first component is "/" for an   *)
(* absolute path.  Strings that the code formats or splits are sequences   *)
(* of tokens.  Every external call (a command, a signal, a directory or a  *)
(* file operation) has the set of outcomes the operating system can give,  *)
(* so each operation of the manager is a set of outcomes                   *)
(* [w |-> world after, log |-> external steps in order, ret |-> result].   *)
(***************************************************************************)
EXTENDS Integers, Sequences, FiniteSets, TLC

VARIABLES
    mtab,     \* the OS mount table, in table order
    dirs,     \* the local directories that exist
    procs,    \* the running processes, in enumeration order
    store,    \* the stored record of each id
    cfgdir,   \* whether the storage directory exists
    op,       \* the operation that ran last and its argument
    pre,      \* the world that operation started in
    ret,      \* its result
    listing,  \* the list full_state returned
    log       \* the external steps it made, in order

vars == <<mtab, dirs, procs, store, cfgdir, op, pre, ret, listing, log>>

(* ------------------------------ bounds -------------------------------- *)

\* Largest number of mount table entries.
MaxMounts == 2
\* Largest number of mounts made by other programs.
MaxExternalMounts == 1
\* Largest number of running mount-helper processes.
MaxProcs == 2
\* Largest number of external steps of one operation that go wrong although they
\* could have gone well (a command that fails, a process that survives a signal).
MaxFaults == 2

(* ----------------------------- data model ----------------------------- *)

VFS_TYPE_SSHFS == "fuse.sshfs"

\* A filesystem type of a mount that is not made by the mount helper.
OtherVfsType == "ext4"

DEFAULT_MOUNT_PATH_PREFIX == <<"/", "mnt", "sshfs">>

SSH_DEFAULT_TIMEOUT == 10

\* Option<T>: None is the empty sequence, Some(x) the sequence of x alone.
None == <<>>

Some(x) == <<x>>

\* The ids in the order sort_by_key gives them.
IdOrder == <<"a", "b">>

Ids == {IdOrder[i] : i \in 1..Len(IdOrder)}

Hosts == {"h1", "h2"}

CustomMountPath == <<"/", "home", "x">>

\* cmd_before_mount values: empty, and a plain program.
BeforeMountCommands == {<<>>, <<"prep">>}

\* The definitions the lifecycle is exercised with: id "a" with either host, with
\* and without a mount_dest_path and a before-mount command, and id "b" with the
\* connection target of one of them.
FilesystemMountDefinition ==
    {d \in [id : Ids, host : Hosts, port : {22}, user : {"u"}, mount_options : {<<>>},
            remote_path : {<<"/", "data">>},
            mount_dest_path : {None, Some(CustomMountPath)},
            cmd_before_mount : BeforeMountCommands, auth_type : {"PublicKey"},
            ssh_key : {<<"/", "k">>}] :
        /\ d.host = "h2" => d.mount_dest_path = None /\ d.cmd_before_mount = <<>>
        /\ d.mount_dest_path # None => d.cmd_before_mount = <<>>
        /\ d.id = "b" =>
               d.host = "h1" /\ d.mount_dest_path = None /\ d.cmd_before_mount = <<>>}

NoDefinition ==
    [id |-> "", host |-> "", port |-> 0, user |-> "", mount_options |-> <<>>,
     remote_path |-> <<>>, mount_dest_path |-> None, cmd_before_mount |-> <<>>,
     auth_type |-> "", ssh_key |-> <<>>]

\* Path::starts_with: component-wise prefix.
StartsWith(path, prefix) ==
    /\ Len(prefix) <= Len(path)
    /\ SubSeq(path, 1, Len(prefix)) = prefix

local_mount_path(d) ==
    IF d.mount_dest_path # None
    THEN d.mount_dest_path[1]
    ELSE DEFAULT_MOUNT_PATH_PREFIX \o <<d.id>>

\* format!("{0}@[{1}]:{2}", user, host, remote_path)
ConnectionTarget(d) == <<d.user, "@[", d.host, "]:">> \o d.remote_path

(* ------------------------------ results ------------------------------- *)

\* Result<T, SftpManError>: kind is "Ok" or the error variant; val is the value of
\* an Ok(bool); src, path, found and expected are the error's payload.
Result(kind, val, src, path, found, expected) ==
    [kind |-> kind, val |-> val, src |-> src, path |-> path, found |-> found,
     expected |-> expected]

Ok == Result("Ok", FALSE, "", <<>>, "", "")

OkBool(b) == Result("Ok", b, "", <<>>, "", "")

Err(kind, src, path) == Result(kind, FALSE, src, path, "", "")

IsOk(r) == r.kind = "Ok"

\* One external step of an operation, in the order it was made.
\* what is the path, the program or the value the step is about; fault marks a step
\* that went wrong although it could have gone well.
Event(ev, d, what, ok) ==
    [ev |-> ev, d |-> d, what |-> what, ok |-> ok, pid |-> 0, ms |-> 0, fault |-> FALSE]

SignalEvent(ev, pid, ok) ==
    [ev |-> ev, d |-> NoDefinition, what |-> <<>>, ok |-> ok, pid |-> pid, ms |-> 0,
     fault |-> FALSE]

SleepEvent(ms) ==
    [ev |-> "sleep", d |-> NoDefinition, what |-> <<>>, ok |-> TRUE, pid |-> 0, ms |-> ms,
     fault |-> FALSE]

Fault(e) == [e EXCEPT !.fault = TRUE]

Faults(l) == Cardinality({i \in 1..Len(l) : l[i].fault})

\* A nested call of the manager came back with result r.
Returned(fn, d, r) == Event(fn \o "_returned", d, <<r.kind, r.src>>, r.kind = "Ok")

Outcome(w, l, r) == [w |-> w, log |-> l, ret |-> r]

Within(outcomes) == {o \in outcomes : Faults(o.log) <= MaxFaults}

(* ------------------------- command building --------------------------- *)

Command(program, args) == [program |-> program, args |-> args]

\* str.split(' '): the pieces between the " " tokens.
RECURSIVE Split(_)
Split(s) ==
    IF \A i \in 1..Len(s) : s[i] # " "
    THEN <<s>>
    ELSE LET i == CHOOSE j \in 1..Len(s) :
                      s[j] = " " /\ \A k \in 1..(j - 1) : s[k] # " "
         IN  <<SubSeq(s, 1, i - 1)>> \o Split(SubSeq(s, i + 1, Len(s)))

RECURSIVE JoinWithSpace(_)
JoinWithSpace(words) ==
    IF Len(words) = 0 THEN <<>>
    ELSE IF Len(words) = 1 THEN words[1]
    ELSE words[1] \o <<" ">> \o JoinWithSpace(Tail(words))

command_to_string(cmd) == JoinWithSpace(<<cmd.program>> \o cmd.args)

\* AuthType::ALL
AuthTypes ==
    {"PublicKey", "AuthenticationAgent", "Password", "KeyboardInteractive", "HostBased",
     "GSSAPIWithMic"}

to_static_str(auth_type) ==
    CASE auth_type = "PublicKey"           -> "publickey"
      [] auth_type = "AuthenticationAgent" -> "authentication-agent"
      [] auth_type = "Password"            -> "password"
      [] auth_type = "KeyboardInteractive" -> "keyboard-interactive"
      [] auth_type = "HostBased"           -> "hostbased"
      [] auth_type = "GSSAPIWithMic"       -> "gssapi-with-mic"

\* Result<AuthType, &str>
from_string(s) ==
    CASE s = "publickey"            -> [kind |-> "Ok", auth_type |-> "PublicKey"]
      [] s = "authentication-agent" -> [kind |-> "Ok", auth_type |-> "AuthenticationAgent"]
      [] s = "password"             -> [kind |-> "Ok", auth_type |-> "Password"]
      [] s = "keyboard-interactive" -> [kind |-> "Ok", auth_type |-> "KeyboardInteractive"]
      [] s = "hostbased"            -> [kind |-> "Ok", auth_type |-> "HostBased"]
      [] s = "gssapi-with-mic"      -> [kind |-> "Ok", auth_type |-> "GSSAPIWithMic"]
      [] OTHER                      -> [kind |-> "Unexpected string value", auth_type |-> ""]

\* SshCommand, were it to name the identity file for every type but the agent.
SshCommandWithIdentityAlways(d) ==
    LET base == <<<<"-p">>, <<ToString(d.port)>>, <<"-o">>,
                  <<"ConnectTimeout=", ToString(SSH_DEFAULT_TIMEOUT)>>>>
        auth == IF d.auth_type = "PublicKey"
                THEN <<<<"-o PreferredAuthentications=", to_static_str("PublicKey")>>,
                       <<"-i ">> \o d.ssh_key>>
                ELSE IF d.auth_type = "AuthenticationAgent"
                THEN <<>>
                ELSE <<<<"-o PreferredAuthentications=", to_static_str(d.auth_type)>>,
                       <<"-i ">> \o d.ssh_key>>
    IN  Command(<<"ssh">>, base \o auth)

\* let mut cmd_ssh = Command::new("ssh") and its arguments.
SshCommand(d) ==
    LET base == <<<<"-p">>, <<ToString(d.port)>>, <<"-o">>,
                  <<"ConnectTimeout=", ToString(SSH_DEFAULT_TIMEOUT)>>>>
        auth == IF d.auth_type = "PublicKey"
                THEN <<<<"-o PreferredAuthentications=", to_static_str("PublicKey")>>,
                       <<"-i ">> \o d.ssh_key>>
                ELSE IF d.auth_type = "AuthenticationAgent"
                THEN <<>>
                ELSE <<<<"-o PreferredAuthentications=", to_static_str(d.auth_type)>>>>
    IN  Command(<<"ssh">>, base \o auth)

RECURSIVE MountOptionArgs(_)
MountOptionArgs(opts) ==
    IF opts = <<>> THEN <<>>
    ELSE <<<<"-o">>, <<Head(opts)>>>> \o MountOptionArgs(Tail(opts))

\* SshfsCommand, were the mount options to come after the mount path.
SshfsCommandOptionsLast(d) ==
    Command(<<"sshfs">>,
            <<<<"-o">>,
              <<"ssh_command=">> \o command_to_string(SshCommand(d)),
              ConnectionTarget(d),
              local_mount_path(d)>>
                \o MountOptionArgs(d.mount_options))

\* let mut cmd_sshfs = Command::new("sshfs") and its arguments.
SshfsCommand(d) ==
    Command(<<"sshfs">>,
            MountOptionArgs(d.mount_options)
                \o <<<<"-o">>,
                     <<"ssh_command=">> \o command_to_string(SshCommand(d)),
                     ConnectionTarget(d),
                     local_mount_path(d)>>)

\* mount_commands, were it to leave the before-mount command out once the
\* filesystem is mounted.
MountCommandsLookingAtMounts(d) ==
    LET before == d.cmd_before_mount
        pieces == Split(before)
        skip   == before = <<>> \/ before = <<"/bin/true">> \/ before = <<"true">>
                      \/ \E i \in 1..Len(mtab) : mtab[i].file = local_mount_path(d)
    IN  IF ~skip /\ pieces[1] = <<>>
        THEN [kind |-> "MountCommandBuilding", cmds |-> <<>>]
        ELSE [kind |-> "Ok",
              cmds |-> (IF skip THEN <<>> ELSE <<Command(pieces[1], Tail(pieces))>>)
                           \o <<SshfsCommand(d)>>]


\* mount_commands, were it to run the no-op before-mount commands too.
MountCommandsRunningNoOps(d) ==
    LET before == d.cmd_before_mount
        pieces == Split(before)
        skip   == before = <<>>
    IN  IF ~skip /\ pieces[1] = <<>>
        THEN [kind |-> "MountCommandBuilding", cmds |-> <<>>]
        ELSE [kind |-> "Ok",
              cmds |-> (IF skip THEN <<>> ELSE <<Command(pieces[1], Tail(pieces))>>)
                           \o <<SshfsCommand(d)>>]
\* Result<Vec<Command>, SftpManError>
mount_commands(d) ==
    LET before == d.cmd_before_mount
        pieces == Split(before)
        skip   == before = <<>> \/ before = <<"/bin/true">> \/ before = <<"true">>
    IN  IF ~skip /\ pieces[1] = <<>>
        THEN [kind |-> "MountCommandBuilding", cmds |-> <<>>]
        ELSE [kind |-> "Ok",
              cmds |-> (IF skip THEN <<>> ELSE <<Command(pieces[1], Tail(pieces))>>)
                           \o <<SshfsCommand(d)>>]

umount_commands(d) ==
    [kind |-> "Ok",
     cmds |-> <<Command(<<"fusermount">>, <<<<"-u">>, local_mount_path(d)>>)>>]

(* ---------------------------- mount table ----------------------------- *)

MountEntry(file, vfstype) == [file |-> file, vfstype |-> vfstype]

\* What reading the OS mount table gives: the table, or a parse failure.
Readable(m) == [ok |-> TRUE, entries |-> m]

Unreadable == [ok |-> FALSE, entries |-> <<>>]

MountTableReads(m) == {Readable(m), Unreadable}

\* The log of a read of the mount table that failed; empty for one that did not.
ReadFailure(t) ==
    IF t.ok THEN <<>> ELSE <<Fault(Event("read_mounts", NoDefinition, <<>>, FALSE))>>

\* mnt::get_submounts: the entries, in table order, whose path starts with prefix.
get_mounts_under_path_prefix(t, prefix) ==
    IF ~t.ok
    THEN [kind |-> "MountListParse", entries |-> <<>>]
    ELSE [kind |-> "Ok",
          entries |-> SelectSeq(t.entries, LAMBDA e : StartsWith(e.file, prefix))]

\* is_definition_mounted, were it to take entries below the path for the path.
IsMountedAtOrBelow(t, d) ==
    LET path   == local_mount_path(d)
        mounts == get_mounts_under_path_prefix(t, path)
        hits   == mounts.entries
    IN  IF mounts.kind # "Ok" THEN Err("MountListParse", "", <<>>)
        ELSE IF hits = <<>> THEN OkBool(FALSE)
        ELSE IF hits[1].vfstype # VFS_TYPE_SSHFS
        THEN Result("MountVfsTypeMismatch", FALSE, "", path, hits[1].vfstype,
                    VFS_TYPE_SSHFS)
        ELSE OkBool(TRUE)


\* is_definition_mounted, were an entry of another type to count as not mounted.
IsDefinitionMountedIgnoringType(t, d) ==
    LET path   == local_mount_path(d)
        mounts == get_mounts_under_path_prefix(t, path)
        hits   == SelectSeq(mounts.entries, LAMBDA e : e.file = path)
    IN  IF mounts.kind # "Ok" THEN Err("MountListParse", "", <<>>)
        ELSE IF hits = <<>> THEN OkBool(FALSE)
        ELSE IF hits[1].vfstype # VFS_TYPE_SSHFS THEN OkBool(FALSE)
        ELSE OkBool(TRUE)

\* Result<bool, SftpManError>
is_definition_mounted(t, d) ==
    LET path   == local_mount_path(d)
        mounts == get_mounts_under_path_prefix(t, path)
        hits   == SelectSeq(mounts.entries, LAMBDA e : e.file = path)
    IN  IF mounts.kind # "Ok" THEN Err("MountListParse", "", <<>>)
        ELSE IF hits = <<>> THEN OkBool(FALSE)
        ELSE IF hits[1].vfstype # VFS_TYPE_SSHFS
        THEN Result("MountVfsTypeMismatch", FALSE, "", path, hits[1].vfstype,
                    VFS_TYPE_SSHFS)
        ELSE OkBool(TRUE)

(* ------------------------------ storage ------------------------------- *)

\* What a record file holds when it is not the record of a definition: something
\* fs::read_to_string fails on (no read permission, bytes that are not UTF-8), or
\* text that serde_json does not parse.
UnreadableFile == [contents |-> "unreadable"]

UnparsableFile == [contents |-> "unparsable"]

\* Manager::definition: the record stored under id; a missing or unreadable file
\* is a read error, an unparsable one a JSON error.
definition(st, id) ==
    IF st[id] = None \/ st[id] = Some(UnreadableFile)
    THEN [kind |-> "FilesystemMountDefinitionRead", d |-> NoDefinition]
    ELSE IF st[id] = Some(UnparsableFile)
    THEN [kind |-> "JSON", d |-> NoDefinition]
    ELSE [kind |-> "Ok", d |-> st[id][1]]

\* Manager::definitions: every stored record, sorted by id.
definitions(st) ==
    LET stored == SelectSeq(IdOrder, LAMBDA id : st[id] # None)
    IN  [i \in 1..Len(stored) |-> st[stored[i]][1]]

MountState(d, mounted) == [definition |-> d, mounted |-> mounted]

full_state(t, st) ==
    LET mounts == get_mounts_under_path_prefix(t, <<"/">>)
        mounted_sshfs_paths ==
            {mounts.entries[i].file : i \in
                {j \in 1..Len(mounts.entries) :
                    mounts.entries[j].vfstype = VFS_TYPE_SSHFS}}
        defs == definitions(st)
    IN  IF mounts.kind # "Ok" THEN [kind |-> "MountListParse", list |-> <<>>]
        ELSE [kind |-> "Ok",
              list |-> [i \in 1..Len(defs) |->
                           MountState(defs[i],
                                      local_mount_path(defs[i]) \in mounted_sshfs_paths)]]

(* ------------------------------ the world ----------------------------- *)

World(m, ds, ps, st, cd) ==
    [mtab |-> m, dirs |-> ds, procs |-> ps, store |-> st, cfgdir |-> cd]

\* A running process: its pid, its command line (program first) and, for a mount
\* helper, the path of the mount it serves.
Process(pid, cmdline, mnt) == [pid |-> pid, cmdline |-> cmdline, mnt |-> mnt]

Pids(ps) == {ps[i].pid : i \in 1..Len(ps)}

FreshPid(ps) == CHOOSE n \in 1..(Len(ps) + 1) : n \notin Pids(ps)

HasEntryAt(m, path) == \E i \in 1..Len(m) : m[i].file = path

\* The index of the topmost (last) entry mounted at path; 0 when there is none.
TopEntryAt(m, path) ==
    IF HasEntryAt(m, path)
    THEN CHOOSE i \in 1..Len(m) :
             m[i].file = path /\ \A j \in (i + 1)..Len(m) : m[j].file # path
    ELSE 0

RemoveAt(seq, i) == SubSeq(seq, 1, i - 1) \o SubSeq(seq, i + 1, Len(seq))

\* The mount helper's mount at path is detached and the helper serving it exits.
Detach(w, path) ==
    LET i == TopEntryAt(w.mtab, path)
    IN  [w EXCEPT !.mtab  = IF i = 0 THEN @ ELSE RemoveAt(@, i),
                  !.procs = SelectSeq(@, LAMBDA p : p.mnt # path)]

\* Path(s) where process pid serves a mount.
ServedBy(w, pid) == {w.procs[i].mnt : i \in {j \in 1..Len(w.procs) : w.procs[j].pid = pid}}

WithoutProcess(w, pid) == [w EXCEPT !.procs = SelectSeq(@, LAMBDA p : p.pid # pid)]

\* The process exits on its own terms: a mount helper detaches its mount first.
ExitGracefully(w, pid) ==
    LET served == ServedBy(w, pid)
        path   == CHOOSE q \in served : TRUE
        i      == IF served = {} THEN 0 ELSE TopEntryAt(w.mtab, path)
    IN  [WithoutProcess(w, pid) EXCEPT
            !.mtab = IF i # 0 /\ @[i].vfstype = VFS_TYPE_SSHFS THEN RemoveAt(@, i) ELSE @]

(* ------------------------- utils/fs.rs, command.rs -------------------- *)

\* fs::create_dir_all: succeeds on an existing directory; else creates it or fails.
ensure_directory_recursively_created(w, d, path) ==
    IF path \in w.dirs
    THEN {Outcome(w, <<Event("mkdir", d, path, TRUE)>>, Ok)}
    ELSE {Outcome([w EXCEPT !.dirs = @ \cup {path}], <<Event("mkdir", d, path, TRUE)>>, Ok),
          Outcome(w, <<Fault(Event("mkdir", d, path, FALSE))>>, Err("IO", "mkdir", path))}

\* fs::remove_dir: fails on a missing directory, a mount point or a non-empty one.
remove_empty_directory(w, d, path) ==
    IF path \in w.dirs /\ ~HasEntryAt(w.mtab, path)
    THEN {Outcome([w EXCEPT !.dirs = @ \ {path}], <<Event("rmdir", d, path, TRUE)>>, Ok),
          Outcome(w, <<Fault(Event("rmdir", d, path, FALSE))>>, Err("IO", "rmdir", path))}
    ELSE {Outcome(w, <<Event("rmdir", d, path, FALSE)>>, Err("IO", "rmdir", path))}

CommandFailures == {"CommandExecution", "CommandUnsuccessful"}

\* run_command on a mount command: the before-mount program touches nothing here;
\* sshfs either mounts and stays as the helper process, or fails, possibly leaving
\* its mount behind.
RunMountCommand(w, d, cmd) ==
    LET path   == local_mount_path(d)
        entry  == MountEntry(path, VFS_TYPE_SSHFS)
        name   == cmd.program[1]
        failed == {Outcome(w, <<Fault(Event("mount_cmd", d, cmd.program, FALSE))>>,
                           Err(k, name, path)) : k \in CommandFailures}
        room   == Len(w.mtab) < MaxMounts
    IN  IF cmd.program # <<"sshfs">>
        THEN failed \cup {Outcome(w, <<Event("mount_cmd", d, cmd.program, TRUE)>>, Ok)}
        ELSE failed
             \cup (IF room /\ Len(w.procs) < MaxProcs
                   THEN {Outcome([w EXCEPT
                                     !.mtab  = Append(@, entry),
                                     !.procs = Append(@, Process(FreshPid(w.procs),
                                                  <<cmd.program>> \o cmd.args, path))],
                                 <<Event("mount_cmd", d, cmd.program, TRUE)>>, Ok)}
                   ELSE {})
             \cup (IF room
                   THEN {Outcome([w EXCEPT !.mtab = Append(@, entry)],
                                 <<Fault(Event("mount_cmd", d, cmd.program, FALSE))>>,
                                 Err("CommandUnsuccessful", name, path))}
                   ELSE {})

\* run_command on fusermount -u path: detaches the topmost mount at path when it is
\* the mount helper's, or fails and changes nothing.
RunUmountCommand(w, d, cmd) ==
    LET path == cmd.args[Len(cmd.args)]
        i    == TopEntryAt(w.mtab, path)
        can  == i # 0 /\ w.mtab[i].vfstype = VFS_TYPE_SSHFS
        e    == Event("umount_cmd", d, path, FALSE)
    IN  {Outcome(w, <<IF can THEN Fault(e) ELSE e>>, Err(k, cmd.program[1], path))
         : k \in CommandFailures}
            \cup IF can
                 THEN {Outcome(Detach(w, path), <<Event("umount_cmd", d, path, TRUE)>>, Ok)}
                 ELSE {}

(* --------------------------- utils/process.rs -------------------------- *)

\* What stands for the command line of a process whose cmdline() fails.
CmdlineUnreadable == <<<<"cmdline", "Err">>>>

\* sshfs_pid_by_definition, were it to look at the arguments of any program.
SshfsPidByDefinitionAnyProgram(w, d) ==
    LET expected_arg == ConnectionTarget(d)
        Matches(p) ==
            /\ p.cmdline # CmdlineUnreadable
            /\ \E k \in 1..Len(p.cmdline) : p.cmdline[k] = expected_arg
        found == SelectSeq(w.procs, Matches)
    IN  {[kind |-> "Generic", src |-> "failed to list processes", pid |-> 0],
         [kind |-> "Ok", src |-> "",
          pid |-> IF found = <<>> THEN 0 ELSE found[1].pid]}

\* Result<Option<i32>, SftpManError>: pid is 0 for None.
sshfs_pid_by_definition(w, d) ==
    LET expected_arg == ConnectionTarget(d)
        Matches(p) ==
            LET program == IF Len(p.cmdline) > 1 THEN p.cmdline[1] ELSE <<>>
            IN  /\ p.cmdline # CmdlineUnreadable
                /\ program = <<"sshfs">>
                /\ \E k \in 1..Len(p.cmdline) : p.cmdline[k] = expected_arg
        found == SelectSeq(w.procs, Matches)
    IN  {[kind |-> "Generic", src |-> "failed to list processes", pid |-> 0],
         [kind |-> "Ok", src |-> "",
          pid |-> IF found = <<>> THEN 0 ELSE found[1].pid]}

IsAlive(w, pid) == pid \in Pids(w.procs)

\* kill(pid, SIGTERM): delivered or not; a process that takes it exits gracefully
\* or, busy, keeps running.
kill_pid_gracefully(w, pid) ==
    {Outcome(w, <<Fault(SignalEvent("SIGTERM", pid, FALSE))>>,
             Err("Generic", "signal", <<>>))}
        \cup IF IsAlive(w, pid)
             THEN {Outcome(w, <<SignalEvent("SIGTERM", pid, TRUE)>>, Ok),
                   Outcome(ExitGracefully(w, pid), <<SignalEvent("SIGTERM", pid, TRUE)>>, Ok)}
             ELSE {}

\* kill(pid, SIGKILL): delivered or not; a killed helper leaves its mount behind.
kill_pid_forcefully(w, pid) ==
    {Outcome(w, <<IF IsAlive(w, pid)
                  THEN Fault(SignalEvent("SIGKILL", pid, FALSE))
                  ELSE SignalEvent("SIGKILL", pid, FALSE)>>,
             Err("Generic", "signal", <<>>))}
        \cup IF IsAlive(w, pid)
             THEN {Outcome(w, <<Fault(SignalEvent("SIGKILL", pid, TRUE))>>, Ok),
                   Outcome(WithoutProcess(w, pid), <<SignalEvent("SIGKILL", pid, TRUE)>>, Ok)}
             ELSE {}

\* Result<bool, ProcError>: "alive", "dead", or "error" when the lookup itself fails.
is_pid_alive(w, pid) == {IF IsAlive(w, pid) THEN "alive" ELSE "dead", "error"}

AliveEvent(pid, res) ==
    [ev |-> "is_pid_alive", d |-> NoDefinition, what |-> <<res>>, ok |-> res # "error",
     pid |-> pid, ms |-> 0, fault |-> res = "error"]

\* KillForcefullyStage, were a SIGKILL that cannot be sent fatal.
KillForcefullyStageFailingOnSignal(w, l, pid, wait_time_before_dead_check) ==
    UNION {{Outcome(k.w,
                    l \o <<SleepEvent(wait_time_before_dead_check)>> \o k.log
                      \o <<AliveEvent(pid, a)>>,
                    IF ~IsOk(k.ret) THEN k.ret
                    ELSE IF a = "alive"
                    THEN Err("Generic", "Ultimately failed to kill process", <<>>)
                    ELSE Ok)
            : a \in is_pid_alive(k.w, pid)}
           : k \in kill_pid_forcefully(w, pid)}

\* KillForcefullyStage, were it to wait after SIGKILL instead of before it.
KillForcefullyStageWaitingAfterKill(w, l, pid, wait_time_before_dead_check) ==
    UNION {{Outcome(k.w,
                    l \o k.log \o <<SleepEvent(wait_time_before_dead_check)>>
                      \o <<AliveEvent(pid, a)>>,
                    IF a = "alive"
                    THEN Err("Generic", "Ultimately failed to kill process", <<>>)
                    ELSE Ok)
            : a \in is_pid_alive(k.w, pid)}
           : k \in kill_pid_forcefully(w, pid)}

\* The forceful stage: the second sleep, SIGKILL, the final liveness check.
KillForcefullyStage(w, l, pid, wait_time_before_dead_check) ==
    UNION {{Outcome(k.w,
                    l \o <<SleepEvent(wait_time_before_dead_check)>> \o k.log
                      \o <<AliveEvent(pid, a)>>,
                    IF a = "alive"
                    THEN Err("Generic", "Ultimately failed to kill process", <<>>)
                    ELSE Ok)
            : a \in is_pid_alive(k.w, pid)}
           : k \in kill_pid_forcefully(w, pid)}


\* ensure_process_killed, were a first liveness check that errors fatal.
EnsureProcessKilledFailingOnCheckError(w, pid, wait_time_before_dead_check, wait_time_before_forcefully_killing) ==
    UNION {UNION {LET l == g.log \o <<SleepEvent(wait_time_before_dead_check),
                                       AliveEvent(pid, a)>>
                  IN  IF a = "dead"
                      THEN {Outcome(g.w, l, Ok)}
                      ELSE IF a = "error"
                      THEN {Outcome(g.w, l, Err("Generic", "is_pid_alive", <<>>))}
                      ELSE KillForcefullyStage(g.w, l, pid, wait_time_before_dead_check)
                  : a \in is_pid_alive(g.w, pid)}
           : g \in kill_pid_gracefully(w, pid)}

\* ensure_process_killed, were its second sleep to last the second duration.
EnsureProcessKilledWaitingAsNamed(w, pid, wait_time_before_dead_check, wait_time_before_forcefully_killing) ==
    UNION {UNION {LET l == g.log \o <<SleepEvent(wait_time_before_dead_check),
                                       AliveEvent(pid, a)>>
                  IN  IF a = "dead"
                      THEN {Outcome(g.w, l, Ok)}
                      ELSE KillForcefullyStage(g.w, l, pid, wait_time_before_forcefully_killing)
                  : a \in is_pid_alive(g.w, pid)}
           : g \in kill_pid_gracefully(w, pid)}

\* ensure_process_killed, were it to run the forceful stage again after a failure.
EnsureProcessKilledTryingAgain(w, pid, wait_time_before_dead_check, wait_time_before_forcefully_killing) ==
    UNION {UNION {LET l == g.log \o <<SleepEvent(wait_time_before_dead_check),
                                       AliveEvent(pid, a)>>
                  IN  IF a = "dead"
                      THEN {Outcome(g.w, l, Ok)}
                      ELSE UNION {IF IsOk(k.ret) THEN {k}
                                  ELSE KillForcefullyStage(k.w, k.log, pid,
                                                           wait_time_before_dead_check)
                                  : k \in KillForcefullyStage(g.w, l, pid,
                                                              wait_time_before_dead_check)}
                  : a \in is_pid_alive(g.w, pid)}
           : g \in kill_pid_gracefully(w, pid)}

\* SIGTERM, the first sleep and liveness check, then unless dead the forceful stage.
ensure_process_killed(w, pid, wait_time_before_dead_check, wait_time_before_forcefully_killing) ==
    UNION {UNION {LET l == g.log \o <<SleepEvent(wait_time_before_dead_check),
                                       AliveEvent(pid, a)>>
                  IN  IF a = "dead"
                      THEN {Outcome(g.w, l, Ok)}
                      ELSE KillForcefullyStage(g.w, l, pid, wait_time_before_dead_check)
                  : a \in is_pid_alive(g.w, pid)}
           : g \in kill_pid_gracefully(w, pid)}

(* ------------------------------ manager.rs ---------------------------- *)

\* The arguments of ensure_process_killed in kill_sshfs_for_definition, in ms.
KillWaitBeforeDeadCheck == 500

KillWaitBeforeForcefullyKilling == 2000

\* Every continuation of the outcomes in `firsts`: K(o) is a set of outcomes that
\* start in o.w; their logs follow o.log.
Then(firsts, K(_)) ==
    Within(UNION {{Outcome(n.w, o.log \o n.log, n.ret) : n \in K(o)} : o \in firsts})

\* Errors are logged only: the outcomes carry no result.
clean_up_after_unmount(w, d) ==
    {Outcome(o.w, o.log, Ok) : o \in remove_empty_directory(w, d, local_mount_path(d))}

\* do_umount, were it to clean up after a successful command only.
DoUmountCleaningUpOnSuccessOnly(w, d) ==
    LET cmd == umount_commands(d).cmds[1]
    IN  Then(RunUmountCommand(w, d, cmd),
             LAMBDA o : IF ~IsOk(o.ret) THEN {Outcome(o.w, <<>>, o.ret)}
                        ELSE {Outcome(c.w, c.log, o.ret)
                              : c \in clean_up_after_unmount(o.w, d)})

do_umount(w, d) ==
    LET cmd == umount_commands(d).cmds[1]
    IN  Then(RunUmountCommand(w, d, cmd),
             LAMBDA o : {Outcome(c.w, c.log, o.ret) : c \in clean_up_after_unmount(o.w, d)})

\* kill_sshfs_for_definition, were it to take a missing helper for a killed one.
KillNothingWhenNoHelper(w, d) ==
    UNION {IF f.kind # "Ok"
           THEN {Outcome(w, <<Fault(Event("find_pid", d, <<>>, FALSE))>>,
                         Err("Generic", f.src, <<>>))}
           ELSE IF f.pid = 0
           THEN {Outcome(w, <<Event("find_pid", d, <<>>, TRUE)>>, Ok)}
           ELSE {Outcome(k.w, <<Event("find_pid", d, <<>>, TRUE)>> \o k.log, k.ret)
                 : k \in ensure_process_killed(w, f.pid, KillWaitBeforeDeadCheck,
                                               KillWaitBeforeForcefullyKilling)}
           : f \in sshfs_pid_by_definition(w, d)}

kill_sshfs_for_definition(w, d) ==
    UNION {IF f.kind # "Ok"
           THEN {Outcome(w, <<Fault(Event("find_pid", d, <<>>, FALSE))>>,
                         Err("Generic", f.src, <<>>))}
           ELSE IF f.pid = 0
           THEN {Outcome(w, <<Event("find_pid", d, <<>>, TRUE)>>,
                         Err("Generic", "Failed to determine pid", <<>>))}
           ELSE {Outcome(k.w, <<Event("find_pid", d, <<>>, TRUE)>> \o k.log, k.ret)
                 : k \in ensure_process_killed(w, f.pid, KillWaitBeforeDeadCheck,
                                               KillWaitBeforeForcefullyKilling)}
           : f \in sshfs_pid_by_definition(w, d)}

\* UmountFallback, were it to run the unmount command again after the kill.
UmountFallbackRetrying(w, d) ==
    Then(kill_sshfs_for_definition(w, d),
         LAMBDA k : IF ~IsOk(k.ret)
                    THEN {Outcome(k.w, <<>>, k.ret)}
                    ELSE do_umount(k.w, d))

\* What umount does once do_umount has failed.
UmountFallback(w, d) ==
    Then(kill_sshfs_for_definition(w, d),
         LAMBDA k : IF ~IsOk(k.ret)
                    THEN {Outcome(k.w, <<>>, k.ret)}
                    ELSE clean_up_after_unmount(k.w, d))

umount(w, d) ==
    LET call == Event("umount", d, local_mount_path(d), TRUE)
    IN  UNION {LET mounted == is_definition_mounted(t, d)
               IN  IF ~IsOk(mounted) THEN {Outcome(w, <<call>> \o ReadFailure(t), mounted)}
                   ELSE IF ~mounted.val THEN {Outcome(w, <<call>>, Ok)}
                   ELSE Then({Outcome(o.w, <<call>> \o o.log, o.ret) : o \in do_umount(w, d)},
                             LAMBDA o : IF IsOk(o.ret)
                                        THEN {Outcome(o.w, <<>>, Ok)}
                                        ELSE UmountFallback(o.w, d))
               : t \in MountTableReads(w.mtab)}

\* MountCommandFailed, were it to return the failure of its cleanup unmount.
MountCommandFailedWithCleanupError(w, d, err) ==
    Then({Outcome(u.w, u.log \o <<Returned("umount", d, u.ret)>>,
                  IF IsOk(u.ret) THEN err ELSE u.ret) : u \in umount(w, d)},
         LAMBDA u : {Outcome(c.w, c.log, u.ret) : c \in clean_up_after_unmount(u.w, d)})

\* What mount does once a mount command has failed with err: the cleanup unmount,
\* whose own error is logged only, the removal of the directory, and Err(err).
MountCommandFailed(w, d, err) ==
    Then({Outcome(u.w, u.log \o <<Returned("umount", d, u.ret)>>, err) : u \in umount(w, d)},
         LAMBDA u : {Outcome(c.w, c.log, err) : c \in clean_up_after_unmount(u.w, d)})

\* RunMountCommands, were it to go on to the next command after a failure.
RECURSIVE RunMountCommandsPastFailure(_, _, _, _)
RunMountCommandsPastFailure(w, d, cmds, i) ==
    IF i > Len(cmds)
    THEN {Outcome(w, <<>>, Ok)}
    ELSE Then(RunMountCommand(w, d, cmds[i]),
              LAMBDA o :
                  IF IsOk(o.ret)
                  THEN RunMountCommandsPastFailure(o.w, d, cmds, i + 1)
                  ELSE {Outcome(x.w, x.log, o.ret)
                        : x \in RunMountCommandsPastFailure(o.w, d, cmds, i + 1)})

\* The commands of `cmds` from index i on, until one fails.
RECURSIVE RunMountCommands(_, _, _, _)
RunMountCommands(w, d, cmds, i) ==
    IF i > Len(cmds)
    THEN {Outcome(w, <<>>, Ok)}
    ELSE Then(RunMountCommand(w, d, cmds[i]),
              LAMBDA o :
                  IF IsOk(o.ret)
                  THEN RunMountCommands(o.w, d, cmds, i + 1)
                  ELSE MountCommandFailed(o.w, d, o.ret))

\* mount_commands(..).unwrap(): a build error aborts the program.
Panic == Err("panic", "unwrap", <<>>)

\* mount, were it not to return early on a mounted definition.
MountWithoutMountedCheck(w, d) ==
    LET call == Event("mount", d, local_mount_path(d), TRUE)
    IN  UNION {LET mounted == is_definition_mounted(t, d)
               IN  IF ~IsOk(mounted) THEN {Outcome(w, <<call>> \o ReadFailure(t), mounted)}
                   ELSE Then({Outcome(o.w, <<call>> \o o.log, o.ret) : o \in
                                 ensure_directory_recursively_created(
                                     w, d, local_mount_path(d))},
                             LAMBDA o :
                                 IF ~IsOk(o.ret) THEN {Outcome(o.w, <<>>, o.ret)}
                                 ELSE IF mount_commands(d).kind # "Ok"
                                 THEN {Outcome(o.w, <<>>, Panic)}
                                 ELSE RunMountCommands(o.w, d, mount_commands(d).cmds, 1))
               : t \in MountTableReads(w.mtab)}

mount(w, d) ==
    LET call == Event("mount", d, local_mount_path(d), TRUE)
    IN  UNION {LET mounted == is_definition_mounted(t, d)
               IN  IF ~IsOk(mounted) THEN {Outcome(w, <<call>> \o ReadFailure(t), mounted)}
                   ELSE IF mounted.val THEN {Outcome(w, <<call>>, Ok)}
                   ELSE Then({Outcome(o.w, <<call>> \o o.log, o.ret) : o \in
                                 ensure_directory_recursively_created(
                                     w, d, local_mount_path(d))},
                             LAMBDA o :
                                 IF ~IsOk(o.ret) THEN {Outcome(o.w, <<>>, o.ret)}
                                 ELSE IF mount_commands(d).kind # "Ok"
                                 THEN {Outcome(o.w, <<>>, Panic)}
                                 ELSE RunMountCommands(o.w, d, mount_commands(d).cmds, 1))
               : t \in MountTableReads(w.mtab)}

\* fs::remove_file on the record of id.
RemoveRecord(w, d) ==
    LET e == Event("remove_file", d, <<d.id>>, FALSE)
    IN  {Outcome(w, <<IF w.store[d.id] # None THEN Fault(e) ELSE e>>,
                 Err("FilesystemMountDefinitionRemove", "remove_file", <<d.id>>))}
            \cup IF w.store[d.id] # None
                 THEN {Outcome([w EXCEPT !.store[d.id] = None],
                               <<Event("remove_file", d, <<d.id>>, TRUE)>>, Ok)}
                 ELSE {}

\* remove, were it to delete the record whatever the unmount returned.
RemoveDespiteUnmountFailure(w, d) ==
    Then({Outcome(u.w, u.log \o <<Returned("umount", d, u.ret)>>, u.ret) : u \in umount(w, d)},
         LAMBDA u : RemoveRecord(u.w, d))

remove(w, d) ==
    Then({Outcome(u.w, u.log \o <<Returned("umount", d, u.ret)>>, u.ret) : u \in umount(w, d)},
         LAMBDA u : IF ~IsOk(u.ret) THEN {Outcome(u.w, <<>>, u.ret)} ELSE RemoveRecord(u.w, d))

\* The storage half of persist: the config directory, the serialization, the write.
WriteRecord(w, d) ==
    LET made == IF w.cfgdir
                THEN {Outcome(w, <<>>, Ok)}
                ELSE {Outcome([w EXCEPT !.cfgdir = TRUE],
                              <<Event("create_dir_all", d, <<"mounts">>, TRUE)>>, Ok),
                      Outcome(w, <<Fault(Event("create_dir_all", d, <<"mounts">>, FALSE))>>,
                              Err("IO", "create_dir_all", <<d.id>>))}
    IN  Then(made,
             LAMBDA m :
                 IF ~IsOk(m.ret) THEN {Outcome(m.w, <<>>, m.ret)}
                 ELSE {Outcome(m.w, <<Fault(Event("to_json_string", d, <<d.id>>, FALSE))>>,
                               Err("JSON", "to_json_string", <<d.id>>)),
                       Outcome(m.w, <<Event("to_json_string", d, <<d.id>>, TRUE),
                                      Fault(Event("write", d, <<d.id>>, FALSE))>>,
                               Err("IO", "write", <<d.id>>))}
                      \cup {Outcome([m.w EXCEPT !.store[d.id] = Some(d)],
                                    <<Event("to_json_string", d, <<d.id>>, TRUE),
                                      Event("write", d, <<d.id>>, TRUE)>>, Ok)})

\* PersistWrite, were it to return what the remount returned.
PersistWriteReturningRemount(w, d, is_existing_and_mounted) ==
    Then(WriteRecord(w, d),
         LAMBDA s : IF ~IsOk(s.ret) THEN {Outcome(s.w, <<>>, s.ret)}
                    ELSE IF is_existing_and_mounted
                    THEN {Outcome(m.w, m.log \o <<Returned("mount", d, m.ret)>>, m.ret)
                          : m \in mount(s.w, d)}
                    ELSE {Outcome(s.w, <<>>, Ok)})

\* PersistWrite, were it to remount after a failed storage step too.
PersistWriteRemountingAnyway(w, d, is_existing_and_mounted) ==
    Then(WriteRecord(w, d),
         LAMBDA s : IF is_existing_and_mounted
                    THEN {Outcome(m.w, m.log \o <<Returned("mount", d, m.ret)>>, s.ret)
                          : m \in mount(s.w, d)}
                    ELSE {Outcome(s.w, <<>>, s.ret)})

\* persist after the old record was looked at: the write, then the remount.
PersistWrite(w, d, is_existing_and_mounted) ==
    Then(WriteRecord(w, d),
         LAMBDA s : IF ~IsOk(s.ret) THEN {Outcome(s.w, <<>>, s.ret)}
                    ELSE IF is_existing_and_mounted
                    THEN {Outcome(m.w, m.log \o <<Returned("mount", d, m.ret)>>, Ok)
                          : m \in mount(s.w, d)}
                    ELSE {Outcome(s.w, <<>>, Ok)})

\* persist, were the failure of the old record's unmount fatal.
PersistStoppingAtUnmountFailure(w, d) ==
    LET old == definition(w.store, d.id)
    IN  IF old.kind # "Ok"
        THEN PersistWrite(w, d, FALSE)
        ELSE UNION {LET mounted == is_definition_mounted(t, old.d)
                    IN  IF ~IsOk(mounted) THEN {Outcome(w, ReadFailure(t), mounted)}
                        ELSE IF ~mounted.val THEN PersistWrite(w, d, FALSE)
                        ELSE Then({Outcome(u.w,
                                           u.log \o <<Returned("umount", old.d, u.ret)>>,
                                           u.ret)
                                   : u \in umount(w, old.d)},
                                  LAMBDA u : IF ~IsOk(u.ret) THEN {Outcome(u.w, <<>>, u.ret)}
                                             ELSE PersistWrite(u.w, d, TRUE))
                    : t \in MountTableReads(w.mtab)}

\* persist, were it to mount the new definition whatever the old record's state.
PersistMountingUnmounted(w, d) ==
    LET old == definition(w.store, d.id)
    IN  IF old.kind # "Ok"
        THEN PersistWrite(w, d, FALSE)
        ELSE UNION {LET mounted == is_definition_mounted(t, old.d)
                    IN  IF ~IsOk(mounted) THEN {Outcome(w, ReadFailure(t), mounted)}
                        ELSE IF ~mounted.val THEN PersistWrite(w, d, TRUE)
                        ELSE Then({Outcome(u.w,
                                           u.log \o <<Returned("umount", old.d, u.ret)>>, Ok)
                                   : u \in umount(w, old.d)},
                                  LAMBDA u : PersistWrite(u.w, d, TRUE))
                    : t \in MountTableReads(w.mtab)}

persist(w, d) ==
    LET old == definition(w.store, d.id)
    IN  IF old.kind # "Ok"
        THEN PersistWrite(w, d, FALSE)
        ELSE UNION {LET mounted == is_definition_mounted(t, old.d)
                    IN  IF ~IsOk(mounted) THEN {Outcome(w, ReadFailure(t), mounted)}
                        ELSE IF ~mounted.val THEN PersistWrite(w, d, FALSE)
                        ELSE Then({Outcome(u.w,
                                           u.log \o <<Returned("umount", old.d, u.ret)>>, Ok)
                                   : u \in umount(w, old.d)},
                                  LAMBDA u : PersistWrite(u.w, d, TRUE))
                    : t \in MountTableReads(w.mtab)}

(* ------------------- cli/mount.rs, umount.rs, remove.rs ---------------- *)

\* The lists a bulk command is run on have at most this many definitions.
MaxBulk == 2

\* manager.mount / manager.umount / manager.remove, by name.
ManagerCall(fn, w, d) ==
    CASE fn = "mount"  -> mount(w, d)
      [] fn = "umount" -> umount(w, d)
      [] fn = "remove" -> remove(w, d)

\* ForEachDefinition, were it to stop at the first definition that fails.
RECURSIVE ForEachDefinitionUntilFailure(_, _, _, _, _)
ForEachDefinitionUntilFailure(fn, w, defs, i, all_good) ==
    IF i > Len(defs) \/ ~all_good
    THEN {Outcome(w, <<>>, OkBool(all_good))}
    ELSE Then({Outcome(o.w, o.log \o <<Returned(fn, defs[i], o.ret)>>, o.ret)
               : o \in ManagerCall(fn, w, defs[i])},
              LAMBDA o : ForEachDefinitionUntilFailure(fn, o.w, defs, i + 1,
                                                       all_good /\ IsOk(o.ret)))

\* mount_definitions, umount_definitions, remove_definitions: the loop from the
\* i-th definition on; the result is the bool all_good.
RECURSIVE ForEachDefinition(_, _, _, _, _)
ForEachDefinition(fn, w, defs, i, all_good) ==
    IF i > Len(defs)
    THEN {Outcome(w, <<>>, OkBool(all_good))}
    ELSE Then({Outcome(o.w, o.log \o <<Returned(fn, defs[i], o.ret)>>, o.ret)
               : o \in ManagerCall(fn, w, defs[i])},
              LAMBDA o : ForEachDefinition(fn, o.w, defs, i + 1, all_good /\ IsOk(o.ret)))

\* exit::Status as a result.
ExitStatus(status) == Result(status, status = "Success", "", <<>>, "", "")

\* definitions.iter().find(|x| x.id == id) for each id in turn: the definitions
\* found, in the order their ids were given.
RECURSIVE DefinitionsToWorkOn(_, _)
DefinitionsToWorkOn(st, ids) ==
    IF ids = <<>> THEN <<>>
    ELSE (IF st[Head(ids)] = None THEN <<>> ELSE <<st[Head(ids)][1]>>)
             \o DefinitionsToWorkOn(st, Tail(ids))

\* ById, were DefinitionNotFound to stay once it is set.
ByIdKeepingNotFound(fn, w, ids) ==
    LET to_work_on == DefinitionsToWorkOn(w.store, ids)
        exit_status == IF \E i \in 1..Len(ids) : w.store[ids[i]] = None
                       THEN "DefinitionNotFound" ELSE "Success"
    IN  {Outcome(o.w, o.log,
                 ExitStatus(IF ~o.ret.val /\ exit_status = "Success"
                            THEN "Failure" ELSE exit_status))
         : o \in ForEachDefinition(fn, w, to_work_on, 1, TRUE)}

\* cli mount, umount, remove by id: look every id up in the stored definitions,
\* then run the loop over those found.
ById(fn, w, ids) ==
    LET to_work_on == DefinitionsToWorkOn(w.store, ids)
        exit_status == IF \E i \in 1..Len(ids) : w.store[ids[i]] = None
                       THEN "DefinitionNotFound" ELSE "Success"
    IN  {Outcome(o.w, o.log,
                 ExitStatus(IF ~o.ret.val THEN "Failure" ELSE exit_status))
         : o \in ForEachDefinition(fn, w, to_work_on, 1, TRUE)}

(* ----------------------------- the system ----------------------------- *)

\* Where other programs mount filesystems of their own.
ExternalMountPaths ==
    {DEFAULT_MOUNT_PATH_PREFIX \o <<"a">>, DEFAULT_MOUNT_PATH_PREFIX \o <<"a", "sub">>}

TheWorld == World(mtab, dirs, procs, store, cfgdir)

\* What is running: its name, its definition argument or its list of definitions.
Operation(name, d, defs) == [name |-> name, d |-> d, defs |-> defs]

Idle == Operation("idle", NoDefinition, <<>>)

StoredDefinitions == {store[id][1] : id \in {i \in Ids : store[i] # None}}

Init ==
    /\ mtab = <<>>
    /\ dirs = {}
    /\ procs = <<>>
    /\ store = [id \in Ids |-> None]
    /\ cfgdir = FALSE
    /\ op = Idle
    /\ pre = World(<<>>, {}, <<>>, [id \in Ids |-> None], FALSE)
    /\ ret = Ok
    /\ listing = <<>>
    /\ log = <<>>

\* The operation `name` on d ran to its end with outcome o.
Ran(name, d, o) ==
    /\ mtab' = o.w.mtab
    /\ dirs' = o.w.dirs
    /\ procs' = o.w.procs
    /\ store' = o.w.store
    /\ cfgdir' = o.w.cfgdir
    /\ op' = Operation(name, d, <<>>)
    /\ pre' = TheWorld
    /\ ret' = o.ret
    /\ listing' = <<>>
    /\ log' = o.log

Mount ==
    /\ op = Idle
    /\ \E d \in StoredDefinitions : \E o \in mount(TheWorld, d) : Ran("mount", d, o)

Umount ==
    /\ op = Idle
    /\ \E d \in StoredDefinitions : \E o \in umount(TheWorld, d) : Ran("umount", d, o)

Remove ==
    /\ op = Idle
    /\ \E d \in StoredDefinitions : \E o \in remove(TheWorld, d) : Ran("remove", d, o)

Persist ==
    /\ op = Idle
    /\ \E d \in FilesystemMountDefinition :
           \E o \in persist(TheWorld, d) : Ran("persist", d, o)

IsDefinitionMounted ==
    /\ op = Idle
    /\ \E d \in StoredDefinitions : \E t \in MountTableReads(mtab) :
           Ran("is_definition_mounted", d,
               Outcome(TheWorld, ReadFailure(t), is_definition_mounted(t, d)))

FullState ==
    /\ op = Idle
    /\ \E t \in MountTableReads(mtab) :
           LET r == full_state(t, store)
           IN  /\ op' = Operation("full_state", NoDefinition, <<>>)
               /\ pre' = TheWorld
               /\ ret' = IF r.kind = "Ok" THEN Ok ELSE Err(r.kind, "", <<>>)
               /\ listing' = r.list
               /\ log' = ReadFailure(t)
               /\ UNCHANGED <<mtab, dirs, procs, store, cfgdir>>

\* Another program mounts a filesystem of another type.
ExternalMount ==
    /\ op = Idle
    /\ Len(mtab) < MaxMounts
    /\ Len(SelectSeq(mtab, LAMBDA e : e.vfstype = OtherVfsType)) < MaxExternalMounts
    /\ \E path \in ExternalMountPaths :
           /\ mtab' = Append(mtab, MountEntry(path, OtherVfsType))
           /\ dirs' = dirs \cup {path}
    /\ pre' = World(mtab', dirs', procs, store, cfgdir)
    /\ UNCHANGED <<procs, store, cfgdir, op, ret, listing, log>>

\* The caller has the result; the manager is idle again.
Return ==
    /\ op # Idle
    /\ op' = Idle
    /\ pre' = TheWorld
    /\ ret' = Ok
    /\ listing' = <<>>
    /\ log' = <<>>
    /\ UNCHANGED <<mtab, dirs, procs, store, cfgdir>>

Next ==
    \/ Mount
    \/ Umount
    \/ Remove
    \/ Persist
    \/ IsDefinitionMounted
    \/ FullState
    \/ ExternalMount
    \/ Return

Spec == Init /\ [][Next]_vars

(* ----------------------------- properties ----------------------------- *)

\* The entries of table m mounted at exactly path, in table order.
EntriesAt(m, path) == SelectSeq(m, LAMBDA e : e.file = path)

\* Whether d counted as mounted when the operation started.
WasMounted(d) ==
    LET hits == EntriesAt(pre.mtab, local_mount_path(d))
    IN  hits # <<>> /\ hits[1].vfstype = VFS_TYPE_SSHFS

WasUnmounted(d) == EntriesAt(pre.mtab, local_mount_path(d)) = <<>>

\* The positions of the log where step ev was made for definition d.
Steps(ev, d) == {i \in 1..Len(log) : log[i].ev = ev /\ log[i].d = d}

StepsOf(ev) == {i \in 1..Len(log) : log[i].ev = ev}

NoReadFailure == StepsOf("read_mounts") = {}

\* The record that was stored under the id of the operation's argument.
OldRecord == pre.store[op.d.id][1]

PersistOnMounted ==
    /\ op.name = "persist"
    /\ pre.store[op.d.id] # None
    /\ WasMounted(OldRecord)

WriteSucceeded == \E i \in Steps("write", op.d) : log[i].ok

\* C1: persist(new) on a stored, mounted definition never writes before it has
\* called the unmount of the OLD record and never mounts before the write has
\* succeeded; once the write has succeeded the mount of the NEW definition is
\* called, persist returns success and the stored record is the new definition,
\* whatever the remount gave.
C1_PersistUnmountWriteRemount ==
    PersistOnMounted =>
        /\ \A i \in Steps("to_json_string", op.d) :
               \E u \in Steps("umount", OldRecord) : u < i
        /\ \A i \in Steps("mount", op.d) :
               \E j \in Steps("write", op.d) : j < i /\ log[j].ok
        /\ \A i \in StepsOf("mount") : log[i].d = op.d
        /\ WriteSucceeded =>
               /\ \E i \in Steps("mount", op.d) : \E r \in Steps("mount_returned", op.d) : i < r
               /\ IsOk(ret)
               /\ store[op.d.id] = Some(op.d)

C1_Witness ==
    /\ PersistOnMounted
    /\ OldRecord.host # op.d.host
    /\ WriteSucceeded
    /\ \E r \in Steps("mount_returned", op.d) : ~log[r].ok
    /\ \E u \in Steps("umount_cmd", OldRecord) : log[u].ok
    /\ IsOk(ret)
    /\ store[op.d.id] = Some(op.d)

\* C2: when a mount command fails in mount(d), the cleanup unmount of d is called
\* after it and the removal of d's local directory is attempted after that, and
\* mount returns the error of the failed command: its kind is a command failure
\* of that command's program, never the error of the cleanup.
C2_MountFailureReturnsCommandError ==
    op.name = "mount" =>
        \A i \in Steps("mount_cmd", op.d) :
            ~log[i].ok =>
                /\ \E u \in Steps("umount", op.d) :
                       /\ i < u
                       /\ \E r \in Steps("umount_returned", op.d) :
                              /\ u < r
                              /\ log[Len(log)].ev = "rmdir"
                              /\ log[Len(log)].what = local_mount_path(op.d)
                              /\ r < Len(log)
                /\ ret.kind \in CommandFailures
                /\ <<ret.src>> = log[i].what

C2_Witness ==
    /\ op.name = "mount"
    /\ \E i \in Steps("mount_cmd", op.d) : ~log[i].ok /\ log[i].what = <<"sshfs">>
    /\ \E r \in Steps("umount_returned", op.d) : ~log[r].ok
    /\ log[Len(log)].ev = "rmdir" /\ ~log[Len(log)].ok
    /\ ret.kind = "CommandUnsuccessful"

\* C3: mount(d) on a definition that counts as mounted, and unmount(d) on one
\* that has no mount table entry, return success having made no external step
\* (no directory, no command, no process lookup, no signal) and leave the world
\* as it was, so a second call in a row finds the same state and does the same.
C3_NoOpWhenAlreadyThere ==
    (/\ NoReadFailure
     /\ \/ op.name = "mount" /\ WasMounted(op.d)
        \/ op.name = "umount" /\ WasUnmounted(op.d)) =>
        /\ IsOk(ret)
        /\ \A i \in 1..Len(log) : log[i].ev = op.name
        /\ Len(log) = 1
        /\ TheWorld = pre

C3_Witness ==
    /\ op.name = "mount"
    /\ WasMounted(op.d)
    /\ IsOk(ret)
    /\ Len(log) = 1

UmountCommandFailed == \E i \in Steps("umount_cmd", op.d) : ~log[i].ok

Last(S) == CHOOSE i \in S : \A j \in S : j <= i

\* The kill sequence of the log ended well: the process was seen dead, or the
\* check after SIGKILL could not tell.
KillSequenceSucceeded ==
    LET checks == StepsOf("is_pid_alive")
    IN  /\ checks # {}
        /\ \/ log[Last(checks)].what = <<"dead">>
           \/ Cardinality(checks) = 2 /\ log[Last(checks)].what = <<"error">>

\* C4: no call of unmount runs the unmount command twice (two unmount commands of
\* a log belong to two unmount calls); and in unmount(d), when the command has
\* failed, a helper was found and the kill sequence succeeded, the removal of the
\* local directory is attempted after the kill and unmount returns success.
C4_KillIsEnoughNoRetry ==
    /\ \A i, j \in StepsOf("umount_cmd") :
           i < j => \E k \in StepsOf("umount") : i < k /\ k < j
    /\ (op.name = "umount" /\ UmountCommandFailed /\ KillSequenceSucceeded) =>
           /\ IsOk(ret)
           /\ Cardinality(StepsOf("umount_cmd")) = 1
           /\ log[Len(log)].ev = "rmdir"
           /\ log[Len(log)].what = local_mount_path(op.d)
           /\ Last(StepsOf("is_pid_alive")) < Len(log)

C4_Witness ==
    /\ op.name = "umount"
    /\ UmountCommandFailed
    /\ \E i \in StepsOf("SIGTERM") : log[i].ok
    /\ KillSequenceSucceeded
    /\ IsOk(ret)
    /\ log[Len(log)].ev = "rmdir" /\ log[Len(log)].ok
    /\ local_mount_path(op.d) \notin dirs

\* No running sshfs process has d's connection target among its arguments.
NoHelperFor(d) ==
    \A i \in 1..Len(pre.procs) :
        \A k \in 1..Len(pre.procs[i].cmdline) : pre.procs[i].cmdline[k] # ConnectionTarget(d)

ProcessesListed == \E f \in Steps("find_pid", op.d) : log[f].ok

\* C5: in unmount(d), when the unmount command has failed and the process list,
\* read without error, has no helper matching d, unmount returns the error
\* "Failed to determine pid", no signal is sent and the mount table is what it
\* was before the call.
C5_NoHelperNoSignal ==
    (op.name = "umount" /\ UmountCommandFailed /\ ProcessesListed /\ NoHelperFor(op.d)) =>
        /\ ret = Err("Generic", "Failed to determine pid", <<>>)
        /\ StepsOf("SIGTERM") \cup StepsOf("SIGKILL") = {}
        /\ mtab = pre.mtab
        /\ procs = pre.procs

C5_Witness ==
    /\ op.name = "umount"
    /\ UmountCommandFailed
    /\ ProcessesListed
    /\ NoHelperFor(op.d)
    /\ ret.src = "Failed to determine pid"
    /\ WasMounted(op.d)
    /\ EntriesAt(mtab, local_mount_path(op.d)) # <<>>

\* C6: remove(d) unmounts first: when the unmount fails, remove returns that very
\* failure, deletes nothing and the record is still stored; when it succeeds, the
\* record file's deletion follows, a successful deletion leaves no record and
\* returns success, a failed one returns FilesystemMountDefinitionRemove.
C6_RemoveUnmountsThenDeletes ==
    op.name = "remove" =>
        /\ \E r \in Steps("umount_returned", op.d) : \E u \in Steps("umount", op.d) : u < r
        /\ \A r \in Steps("umount_returned", op.d) :
               /\ ~log[r].ok =>
                      /\ <<ret.kind, ret.src>> = log[r].what
                      /\ ~IsOk(ret)
                      /\ StepsOf("remove_file") = {}
                      /\ store = pre.store
                      /\ store[op.d.id] = Some(op.d)
               /\ log[r].ok =>
                      \E f \in Steps("remove_file", op.d) :
                          /\ r < f
                          /\ log[f].ok => IsOk(ret) /\ store[op.d.id] = None
                          /\ ~log[f].ok =>
                                 /\ ret.kind = "FilesystemMountDefinitionRemove"
                                 /\ store = pre.store

C6_Witness ==
    /\ op.name = "remove"
    /\ WasMounted(op.d)
    /\ \E r \in Steps("umount_returned", op.d) : ~log[r].ok
    /\ ret.kind \in CommandFailures \cup {"Generic"}
    /\ store[op.d.id] = Some(op.d)

MountedQuery == op.name = "is_definition_mounted" /\ NoReadFailure

MismatchOf(path, found) ==
    Result("MountVfsTypeMismatch", FALSE, "", path, found, VFS_TYPE_SSHFS)

\* C7 as stated: is_definition_mounted(d) is true iff some entry at exactly d's
\* path has type fuse.sshfs, false when no entry is at exactly that path, and a
\* MountVfsTypeMismatch when some entry at exactly that path has another type.
C7_AnyEntryDecides ==
    MountedQuery =>
        LET path == local_mount_path(op.d)
            hits == EntriesAt(pre.mtab, path)
        IN  /\ (IsOk(ret) /\ ret.val) <=>
                   \E i \in 1..Len(hits) : hits[i].vfstype = VFS_TYPE_SSHFS
            /\ hits = <<>> => ret = OkBool(FALSE)
            /\ \A i \in 1..Len(hits) :
                   hits[i].vfstype # VFS_TYPE_SSHFS =>
                       ret = MismatchOf(path, hits[i].vfstype)

\* C7: is_definition_mounted(d) is decided by the FIRST entry, in table order,
\* at exactly d's path: true when its type is fuse.sshfs, a MountVfsTypeMismatch
\* with the path, that entry's type and fuse.sshfs when it is not, and false when
\* no entry is at exactly that path, entries below it not counting.
C7_FirstEntryDecides ==
    MountedQuery =>
        LET path == local_mount_path(op.d)
            hits == EntriesAt(pre.mtab, path)
        IN  /\ hits = <<>> => ret = OkBool(FALSE)
            /\ hits # <<>> =>
                   IF hits[1].vfstype = VFS_TYPE_SSHFS
                   THEN ret = OkBool(TRUE)
                   ELSE ret = MismatchOf(path, hits[1].vfstype)
            /\ mtab = pre.mtab

C7_Witness ==
    /\ MountedQuery
    /\ LET hits == EntriesAt(pre.mtab, local_mount_path(op.d))
       IN  /\ Len(hits) = 2
           /\ hits[1].vfstype = VFS_TYPE_SSHFS
           /\ hits[2].vfstype = OtherVfsType
    /\ ret = OkBool(TRUE)

\* The entry that stands for d's path in table m has a type other than fuse.sshfs.
WrongTypeAt(m, d) ==
    LET hits == EntriesAt(m, local_mount_path(d))
    IN  hits # <<>> /\ hits[1].vfstype # VFS_TYPE_SSHFS

\* C8 as stated: is_definition_mounted and full_state both fail when the entry at
\* the definition's path has a type other than fuse.sshfs, and whenever
\* is_definition_mounted(d) answers without error full_state lists the same
\* boolean for d.
C8_WrongTypeIsAnErrorEverywhere ==
    /\ (MountedQuery /\ WrongTypeAt(pre.mtab, op.d)) => ~IsOk(ret)
    /\ (op.name = "full_state" /\ NoReadFailure) =>
           /\ (\E d \in StoredDefinitions : WrongTypeAt(mtab, d)) => ~IsOk(ret)
           /\ IsOk(ret) =>
                  \A i \in 1..Len(listing) :
                      LET answer == is_definition_mounted(Readable(mtab),
                                                          listing[i].definition)
                      IN  IsOk(answer) => listing[i].mounted = answer.val

\* The first unmount that returned in the log: in persist on a mounted record,
\* the unmount of the old record.
FirstUnmountReturned ==
    LET S == StepsOf("umount_returned") IN CHOOSE i \in S : \A j \in S : i <= j

OldUnmountFailed ==
    /\ PersistOnMounted
    /\ Steps("umount_returned", OldRecord) # {}
    /\ ~log[FirstUnmountReturned].ok

StorageSteps == StepsOf("create_dir_all") \cup StepsOf("to_json_string") \cup StepsOf("write")

\* C9: in persist(new) on a stored, mounted record whose unmount fails, the
\* storage step is still made after it, what persist returns is never the
\* unmount's failure, and when the write succeeds persist returns success with
\* the new record stored.
C9_OldUnmountFailureNotFatal ==
    OldUnmountFailed =>
        /\ log[FirstUnmountReturned].d = OldRecord
        /\ \E i \in StorageSteps : FirstUnmountReturned < i
        /\ ~IsOk(ret) => ret.src \in {"create_dir_all", "to_json_string", "write"}
        /\ WriteSucceeded => IsOk(ret) /\ store[op.d.id] = Some(op.d)

C9_Witness ==
    /\ OldUnmountFailed
    /\ OldRecord # op.d
    /\ WriteSucceeded
    /\ IsOk(ret)
    /\ store[op.d.id] = Some(op.d)
    /\ EntriesAt(mtab, local_mount_path(OldRecord)) # <<>>

StorageFailed == \E i \in StorageSteps : ~log[i].ok

\* C10: in persist(new), when the creation of the storage directory, the
\* serialization or the write fails, persist returns that failure, the store is
\* what it was and no mount is called and no mount command is run, also when
\* this call has unmounted the old record.
C10_StorageFailureNoRemount ==
    (op.name = "persist" /\ StorageFailed) =>
        /\ \E i \in StorageSteps : ~log[i].ok /\ ret.src = log[i].ev /\ i = Len(log)
        /\ ret.kind \in {"IO", "JSON"}
        /\ StepsOf("mount") \cup StepsOf("mount_cmd") \cup StepsOf("mkdir") = {}
        /\ store = pre.store

C10_Witness ==
    /\ PersistOnMounted
    /\ StorageFailed
    /\ \E u \in Steps("umount_cmd", OldRecord) : log[u].ok
    /\ EntriesAt(mtab, local_mount_path(OldRecord)) = <<>>
    /\ ~IsOk(ret)
    /\ store[op.d.id] = Some(OldRecord)

\* The kill sequence of the log went through its forceful stage and still saw
\* the process alive at the end.
KillSequenceFailed ==
    LET checks == StepsOf("is_pid_alive")
    IN  Cardinality(checks) = 2 /\ log[Last(checks)].what = <<"alive">>

\* C11: in unmount(d), a failed unmount command is always followed by the lookup
\* of d's helper process, the first step of the kill fallback; and when the kill
\* sequence ends with the process still alive, unmount returns "Ultimately
\* failed to kill process" and the removal of d's local directory has been
\* attempted in this call: once, by do_umount, before the fallback started.
C11_KillFallbackAutomatic ==
    (op.name = "umount" /\ UmountCommandFailed) =>
        /\ \A i \in Steps("umount_cmd", op.d) :
               \E f \in Steps("find_pid", op.d) : i < f
        /\ KillSequenceFailed =>
               /\ ret = Err("Generic", "Ultimately failed to kill process", <<>>)
               /\ \E r \in Steps("rmdir", op.d) :
                      /\ log[r].what = local_mount_path(op.d)
                      /\ \E i \in Steps("umount_cmd", op.d) : i < r
                      /\ \A f \in Steps("find_pid", op.d) : r < f
               /\ Cardinality(StepsOf("rmdir")) = 1

C11_Witness ==
    /\ op.name = "umount"
    /\ UmountCommandFailed
    /\ KillSequenceFailed
    /\ \E i \in StepsOf("SIGTERM") : log[i].ok
    /\ \E i \in StepsOf("SIGKILL") : TRUE
    /\ ret.src = "Ultimately failed to kill process"
    /\ procs = pre.procs
    /\ procs # <<>>

\* mount(d) went past its mounted check: d was not mounted and the mount table
\* was read.
MountProceeded ==
    /\ op.name = "mount"
    /\ WasUnmounted(op.d)
    /\ ~(Len(log) >= 2 /\ log[2].ev = "read_mounts")

\* The positions of the log where a mount command was run, in order.
MountCommandSteps ==
    SelectSeq([i \in 1..Len(log) |-> i], LAMBDA i : log[i].ev = "mount_cmd")

\* C23: mount(d) on a definition that is not mounted creates the local mount
\* directory before it runs any command, then runs the built commands in list
\* order, the before-mount command before sshfs, and stops at the first command
\* that fails: after a failed before-mount command sshfs is never run.
C23_MountStepsInOrder ==
    MountProceeded =>
        LET cmds  == mount_commands(op.d).cmds
            steps == MountCommandSteps
        IN  /\ Len(log) >= 2
            /\ log[2].ev = "mkdir" /\ log[2].what = local_mount_path(op.d)
            /\ ~log[2].ok => steps = <<>>
            /\ Len(steps) <= Len(cmds)
            /\ \A k \in 1..Len(steps) :
                   /\ steps[k] > 2
                   /\ log[steps[k]].d = op.d
                   /\ log[steps[k]].what = cmds[k].program
                   /\ k < Len(steps) => log[steps[k]].ok
            /\ log[2].ok /\ Len(steps) < Len(cmds) =>
                   steps # <<>> /\ ~log[steps[Len(steps)]].ok
            /\ IsOk(ret) <=> Len(steps) = Len(cmds) /\ log[steps[Len(steps)]].ok

C23_Witness ==
    /\ MountProceeded
    /\ Len(mount_commands(op.d).cmds) = 2
    /\ log[2].ok
    /\ Len(MountCommandSteps) = 1
    /\ log[MountCommandSteps[1]].what = <<"prep">>
    /\ ~log[MountCommandSteps[1]].ok
    /\ ~IsOk(ret)

\* The operation's first read of the mount table failed.
FirstReadFailed == Len(log) >= 2 /\ log[2].ev = "read_mounts"

\* mount, umount or remove could not tell whether its definition is mounted: its
\* read of the mount table failed, or the entry that stands for the path has
\* another type.
StateUndetermined ==
    /\ op.name \in {"mount", "umount", "remove"}
    /\ FirstReadFailed \/ WrongTypeAt(pre.mtab, op.d)

\* C30: when the mount state cannot be determined, mount, umount and remove
\* return that error and have done nothing: no command run, no directory
\* created or removed, no process looked up or signalled, no record deleted.
C30_UndeterminedStateTouchesNothing ==
    StateUndetermined =>
        /\ IF FirstReadFailed
           THEN ret = Err("MountListParse", "", <<>>)
           ELSE ret = MismatchOf(local_mount_path(op.d),
                                 EntriesAt(pre.mtab, local_mount_path(op.d))[1].vfstype)
        /\ TheWorld = pre
        /\ \A i \in 1..Len(log) :
               log[i].ev \in {"mount", "umount", "read_mounts", "umount_returned"}

C30_Witness ==
    /\ op.name = "remove"
    /\ WrongTypeAt(pre.mtab, op.d)
    /\ pre.store[op.d.id] # None
    /\ store[op.d.id] # None
    /\ ret.kind = "MountVfsTypeMismatch"

\* C31: whenever umount(d) returns success, no entry of the mount table is at
\* d's local mount path any more, and is_definition_mounted(d) asked right then
\* answers false; the kill fallback and a final liveness check that errored
\* included.
C31_UnmountedAfterSuccess ==
    op.name = "umount" /\ IsOk(ret) =>
        /\ ~HasEntryAt(mtab, local_mount_path(op.d))
        /\ is_definition_mounted(Readable(mtab), op.d) = OkBool(FALSE)

\* The definitions that were stored when the operation started, other than the
\* operation's own, mounting somewhere else than it does.
OtherStored ==
    {pre.store[id][1] : id \in {i \in Ids : pre.store[i] # None /\ i # op.d.id}}

\* C32: for stored definitions A and B with different ids and different local
\* mount paths, mount, umount or remove of A (the kill fallback included) ends no
\* process serving B's mount and takes no entry at B's path from the mount table.
C32_KillOnlyOwnHelper ==
    op.name \in {"mount", "umount", "remove"} =>
        \A B \in OtherStored :
            local_mount_path(B) # local_mount_path(op.d) =>
                /\ \A i \in 1..Len(pre.procs) :
                       pre.procs[i].mnt = local_mount_path(B)
                           => pre.procs[i].pid \in Pids(procs)
                /\ Len(EntriesAt(mtab, local_mount_path(B)))
                       >= Len(EntriesAt(pre.mtab, local_mount_path(B)))

\* C33: when persist(new) on a definition that was mounted returns success and
\* the new definition counts as mounted, the mount at its path was made by the
\* sshfs command built from the new definition during this persist, never left
\* from the old record's mount.
C33_RemountedFromNewFields ==
    PersistOnMounted /\ IsOk(ret)
        /\ is_definition_mounted(Readable(mtab), op.d) = OkBool(TRUE)
        => \E i \in Steps("mount_cmd", op.d) : log[i].what = <<"sshfs">>

\* Whether full_state, reading table m, lists definition B as mounted.
ReportedMounted(m, B) ==
    LET r == full_state(Readable(m), store)
    IN  \E i \in 1..Len(r.list) : r.list[i].definition = B /\ r.list[i].mounted

\* C36: mount(A) and umount(A) change the mount state of A only: for every other
\* stored definition B, is_definition_mounted(B) answers after the call what it
\* answered before it, and full_state lists B as mounted after the call only if
\* it did before.
C36_OtherDefinitionsKeepTheirState ==
    op.name \in {"mount", "umount"} =>
        \A B \in OtherStored :
            /\ is_definition_mounted(Readable(mtab), B)
                   = is_definition_mounted(Readable(pre.mtab), B)
            /\ ReportedMounted(mtab, B) = ReportedMounted(pre.mtab, B)

\* mount failed, nothing is left mounted at the path, and no removal of the
\* directory failed for a reason of the file system's own.
MountFailedCleanly ==
    /\ op.name = "mount"
    /\ ~IsOk(ret)
    /\ ~HasEntryAt(mtab, local_mount_path(op.d))
    /\ \A i \in Steps("rmdir", op.d) : ~log[i].fault

\* C37: a failed mount(d) leaves the local mount directory as it was: it exists
\* after the call exactly if it existed before, a directory the call made being
\* removed again and one that was there before being still there.
C37_FailedMountKeepsDirectories ==
    MountFailedCleanly =>
        (local_mount_path(op.d) \in dirs <=> local_mount_path(op.d) \in pre.dirs)

\* persist was called with no loadable record stored under the id, or with one
\* that did not count as mounted.
PersistOnUnmounted ==
    /\ op.name = "persist"
    /\ pre.store[op.d.id] = None \/ ~WasMounted(OldRecord)

MountingSteps ==
    {"mount", "umount", "mkdir", "rmdir", "mount_cmd", "umount_cmd",
     "find_pid", "SIGTERM", "SIGKILL", "sleep", "is_pid_alive"}

\* C38: persist(d), when no record is stored under d.id or the stored one is not
\* mounted, makes no mount, unmount or kill step and leaves the mount table, the
\* local directories and the processes as they were; it at most creates the
\* storage directory and writes the record of d.id, every other record staying.
C38_PersistUnmountedTouchesStorageOnly ==
    PersistOnUnmounted =>
        /\ \A i \in 1..Len(log) : log[i].ev \notin MountingSteps
        /\ mtab = pre.mtab /\ dirs = pre.dirs /\ procs = pre.procs
        /\ \A id \in Ids \ {op.d.id} : store[id] = pre.store[id]
        /\ store[op.d.id] \in {pre.store[op.d.id], Some(op.d)}
        /\ cfgdir # pre.cfgdir => cfgdir /\ StepsOf("create_dir_all") # {}
        /\ IsOk(ret) => cfgdir /\ store[op.d.id] = Some(op.d)

\* A stored, unmounted record is rewritten with other fields while another
\* definition is mounted.
C38_Witness ==
    /\ PersistOnUnmounted
    /\ pre.store[op.d.id] # None
    /\ op.d # OldRecord
    /\ IsOk(ret)
    /\ store[op.d.id] = Some(op.d)
    /\ pre.mtab # <<>>
    /\ local_mount_path(OldRecord) \in pre.dirs

\* The first record of all is written: the storage directory is created.
C38_WitnessFirstRecord ==
    /\ PersistOnUnmounted
    /\ pre.store = [id \in Ids |-> None]
    /\ ~pre.cfgdir /\ cfgdir
    /\ store[op.d.id] = Some(op.d)

(* ------------- ensure_process_killed on its own (SpecKill) ------------ *)

\* The helper process of definition d, as sshfs leaves it running.
HelperOf(pid, d) ==
    Process(pid, <<SshfsCommand(d).program>> \o SshfsCommand(d).args, local_mount_path(d))

\* The definition of id that has the first host and every optional field unset.
PlainDefinition(id) ==
    CHOOSE d \in FilesystemMountDefinition :
        /\ d.id = id
        /\ d.host = "h1"
        /\ d.mount_dest_path = None
        /\ d.cmd_before_mount = <<>>

\* The pids ensure_process_killed is called with: running ones and one that is not.
KillPids == 1..(MaxProcs + 1)

\* The worlds ensure_process_killed starts in: for each id, mounted with its
\* helper running or not mounted.
KillWorlds ==
    {LET ids == SelectSeq(IdOrder, LAMBDA id : id \in on)
     IN  World([i \in 1..Len(ids) |->
                   MountEntry(local_mount_path(PlainDefinition(ids[i])), VFS_TYPE_SSHFS)],
               {local_mount_path(PlainDefinition(ids[i])) : i \in 1..Len(ids)},
               [i \in 1..Len(ids) |-> HelperOf(i, PlainDefinition(ids[i]))],
               [id \in Ids |-> None],
               FALSE)
     : on \in SUBSET Ids}

InitKill ==
    /\ \E w \in KillWorlds :
           /\ mtab = w.mtab
           /\ dirs = w.dirs
           /\ procs = w.procs
           /\ store = w.store
           /\ cfgdir = w.cfgdir
           /\ pre = w
    /\ op = Idle
    /\ ret = Ok
    /\ listing = <<>>
    /\ log = <<>>

\* The durations ensure_process_killed is called with, in ms: the manager's two,
\* in either place.
WaitTimes == {KillWaitBeforeDeadCheck, KillWaitBeforeForcefullyKilling}

\* One call; listing keeps the two durations it was given.
EnsureProcessKilled ==
    /\ op = Idle
    /\ \E pid \in KillPids, wait_dead \in WaitTimes, wait_kill \in WaitTimes :
           \E o \in ensure_process_killed(TheWorld, pid, wait_dead, wait_kill) :
               /\ mtab' = o.w.mtab
               /\ dirs' = o.w.dirs
               /\ procs' = o.w.procs
               /\ store' = o.w.store
               /\ cfgdir' = o.w.cfgdir
               /\ op' = Operation("ensure_process_killed", NoDefinition, <<>>)
               /\ pre' = TheWorld
               /\ ret' = o.ret
               /\ listing' = <<wait_dead, wait_kill>>
               /\ log' = o.log

NextKill ==
    \/ EnsureProcessKilled
    \/ Return

SpecKill == InitKill /\ [][NextKill]_vars

KillCall == op.name = "ensure_process_killed"

ForcefulStageReached == StepsOf("SIGKILL") # {}

\* C12: when ensure_process_killed reaches its forceful stage, the second
\* liveness check alone decides: dead is success, alive is "Ultimately failed to
\* kill process", a check that errors is success; whether the signals could be
\* sent never matters, so a call fails only with the process seen alive at the end.
C12_SecondCheckDecides ==
    KillCall =>
        LET checks == StepsOf("is_pid_alive")
        IN  /\ ForcefulStageReached =>
                   /\ Cardinality(checks) = 2
                   /\ StepsOf("SIGKILL") = {Last(checks) - 1}
                   /\ log[Last(checks)].what = <<"dead">> => ret = Ok
                   /\ log[Last(checks)].what = <<"error">> => ret = Ok
                   /\ log[Last(checks)].what = <<"alive">> =>
                          ret = Err("Generic", "Ultimately failed to kill process", <<>>)
            /\ ~ForcefulStageReached =>
                   /\ Cardinality(checks) = 1
                   /\ log[Last(checks)].what = <<"dead">>
                   /\ ret = Ok

C12_Witness ==
    /\ KillCall
    /\ \E i \in StepsOf("SIGTERM") : ~log[i].ok
    /\ \E i \in StepsOf("SIGKILL") : ~log[i].ok /\ log[i].pid \in Pids(procs)
    /\ log[Len(log)].what = <<"error">>
    /\ ret = Ok

\* C24: in ensure_process_killed SIGKILL is never sent before SIGTERM and the
\* first wait; a first liveness check that says dead ends the call with success
\* and without SIGKILL; one that says alive, or itself errors, is followed by
\* SIGKILL rather than by a failure.
C24_GracefulFirst ==
    KillCall =>
        /\ Len(log) >= 3
        /\ log[1].ev = "SIGTERM" /\ log[2].ev = "sleep" /\ log[3].ev = "is_pid_alive"
        /\ \A i \in StepsOf("SIGKILL") : i > 3
        /\ log[3].what = <<"dead">> => ret = Ok /\ StepsOf("SIGKILL") = {} /\ Len(log) = 3
        /\ log[3].what \in {<<"alive">>, <<"error">>} => StepsOf("SIGKILL") # {}

C24_Witness ==
    /\ KillCall
    /\ log[3].what = <<"error">>
    /\ \E i \in StepsOf("SIGKILL") : log[i].ok
    /\ ret = Ok

\* The steps of one call, in order.
KillSteps == [i \in 1..Len(log) |-> log[i].ev]

\* C25 as stated: every call follows Alive, SentTerm, WaitedAfterTerm, Dead or
\* StillAlive, SentKill, WaitedAfterKill, Dead or Failed: once SIGKILL has been
\* sent, a wait takes place before the final liveness check.
C25_WaitAfterKill ==
    KillCall =>
        \/ KillSteps = <<"SIGTERM", "sleep", "is_pid_alive">>
        \/ KillSteps = <<"SIGTERM", "sleep", "is_pid_alive", "SIGKILL", "sleep", "is_pid_alive">>

\* C25 amended: every call follows Alive, SentTerm, WaitedAfterTerm, Dead or
\* StillAlive, WaitedBeforeKill, SentKill, Dead or Failed: the second wait comes
\* before SIGKILL, and the final liveness check follows SIGKILL with no wait in
\* between.
C25_WaitBeforeKill ==
    KillCall =>
        \/ KillSteps = <<"SIGTERM", "sleep", "is_pid_alive">> /\ log[3].what = <<"dead">>
        \/ /\ KillSteps =
                  <<"SIGTERM", "sleep", "is_pid_alive", "sleep", "SIGKILL", "is_pid_alive">>
           /\ log[3].what # <<"dead">>
           /\ IsOk(ret) <=> log[6].what # <<"alive">>

C25_Witness ==
    /\ KillCall
    /\ Len(log) = 6
    /\ log[5].ev = "SIGKILL" /\ log[5].ok
    /\ log[6].what = <<"alive">>
    /\ ~IsOk(ret)

RECURSIVE SleptIn(_)
SleptIn(l) == IF l = <<>> THEN 0 ELSE Head(l).ms + SleptIn(Tail(l))

\* C26: the wait before SIGKILL lasts the first duration, not the second: one
\* call sleeps the first duration in all when the first check says dead and
\* twice the first duration otherwise, whatever the second duration is; with the
\* manager's 500 ms and 2000 ms that is at most 1000 ms.
C26_SecondWaitIsFirstDuration ==
    KillCall =>
        /\ \A i \in StepsOf("sleep") : log[i].ms = listing[1]
        /\ SleptIn(log) = IF log[3].what = <<"dead">> THEN listing[1] ELSE 2 * listing[1]
        /\ listing = <<500, 2000>> => SleptIn(log) <= 1000

C26_Witness ==
    /\ KillCall
    /\ listing = <<500, 2000>>
    /\ StepsOf("SIGKILL") # {}
    /\ SleptIn(log) = 1000

\* C27: one call of ensure_process_killed is a bounded sequence of steps
\* whatever the process does and whatever the signals and checks return: at most
\* one SIGTERM, one SIGKILL, two sleeps and two liveness checks, nothing tried
\* again, and a result at the end.
C27_KillBounded ==
    KillCall =>
        /\ Cardinality(StepsOf("SIGTERM")) = 1
        /\ Cardinality(StepsOf("SIGKILL")) <= 1
        /\ Cardinality(StepsOf("sleep")) <= 2
        /\ Cardinality(StepsOf("is_pid_alive")) <= 2
        /\ Len(log) <= 6
        /\ \A i \in 1..Len(log) : log[i].ev \in {"SIGTERM", "SIGKILL", "sleep", "is_pid_alive"}
        /\ ret.kind \in {"Ok", "Generic"}

C27_Witness ==
    /\ KillCall
    /\ Len(log) = 6
    /\ \A i \in StepsOf("SIGTERM") \cup StepsOf("SIGKILL") : ~log[i].ok
    /\ log[3].what = <<"alive">>
    /\ log[6].what = <<"alive">>
    /\ ~IsOk(ret)

(* --------------------- bulk commands (SpecBulk) ----------------------- *)

\* The stores a bulk command starts with: each id stored or not.
BulkStores ==
    {[id \in Ids |-> IF id \in on THEN Some(PlainDefinition(id)) ELSE None]
     : on \in SUBSET Ids}

InitBulk ==
    /\ mtab = <<>>
    /\ dirs = {}
    /\ procs = <<>>
    /\ store \in BulkStores
    /\ cfgdir = TRUE
    /\ op = Idle
    /\ pre = World(<<>>, {}, <<>>, store, TRUE)
    /\ ret = Ok
    /\ listing = <<>>
    /\ log = <<>>

\* The lists of stored definitions a command line can name: any order, repeats.
BulkLists == UNION {[1..n -> StoredDefinitions] : n \in 0..MaxBulk}

RanBulk(fn, defs, o) ==
    /\ mtab' = o.w.mtab
    /\ dirs' = o.w.dirs
    /\ procs' = o.w.procs
    /\ store' = o.w.store
    /\ cfgdir' = o.w.cfgdir
    /\ op' = Operation(fn \o "_definitions", NoDefinition, defs)
    /\ pre' = TheWorld
    /\ ret' = o.ret
    /\ listing' = <<>>
    /\ log' = o.log

MountDefinitions ==
    /\ op = Idle
    /\ \E defs \in BulkLists :
           \E o \in ForEachDefinition("mount", TheWorld, defs, 1, TRUE) :
               RanBulk("mount", defs, o)

UmountDefinitions ==
    /\ op = Idle
    /\ \E defs \in BulkLists :
           \E o \in ForEachDefinition("umount", TheWorld, defs, 1, TRUE) :
               RanBulk("umount", defs, o)

RemoveDefinitions ==
    /\ op = Idle
    /\ \E defs \in BulkLists :
           \E o \in ForEachDefinition("remove", TheWorld, defs, 1, TRUE) :
               RanBulk("remove", defs, o)

\* The ids a command line can name: stored or not, any order, repeats.
IdLists == UNION {[1..n -> Ids] : n \in 0..MaxBulk}

RanById(fn, ids, o) ==
    /\ mtab' = o.w.mtab
    /\ dirs' = o.w.dirs
    /\ procs' = o.w.procs
    /\ store' = o.w.store
    /\ cfgdir' = o.w.cfgdir
    /\ op' = Operation("cli_" \o fn, NoDefinition, DefinitionsToWorkOn(store, ids))
    /\ pre' = TheWorld
    /\ ret' = o.ret
    /\ listing' = ids
    /\ log' = o.log

CliMount ==
    /\ op = Idle
    /\ \E ids \in IdLists : \E o \in ById("mount", TheWorld, ids) : RanById("mount", ids, o)

CliUmount ==
    /\ op = Idle
    /\ \E ids \in IdLists : \E o \in ById("umount", TheWorld, ids) : RanById("umount", ids, o)

CliRemove ==
    /\ op = Idle
    /\ \E ids \in IdLists : \E o \in ById("remove", TheWorld, ids) : RanById("remove", ids, o)

NextBulk ==
    \/ MountDefinitions
    \/ UmountDefinitions
    \/ RemoveDefinitions
    \/ CliMount
    \/ CliUmount
    \/ CliRemove
    \/ Return

SpecBulk == InitBulk /\ [][NextBulk]_vars

BulkNames == {"mount_definitions", "umount_definitions", "remove_definitions"}

\* The manager function a bulk command calls on each definition.
BulkFunction ==
    CASE op.name = "mount_definitions"  -> "mount"
      [] op.name = "umount_definitions" -> "umount"
      [] op.name = "remove_definitions" -> "remove"

\* The positions of the log where a call of the bulk command's function returned,
\* in order.
BulkReturns ==
    SelectSeq([i \in 1..Len(log) |-> i],
              LAMBDA i : log[i].ev = BulkFunction \o "_returned")

ByIdNames == {"cli_mount", "cli_umount", "cli_remove"}

\* The manager function a by-id command calls on each definition found.
ByIdFunction ==
    CASE op.name = "cli_mount"  -> "mount"
      [] op.name = "cli_umount" -> "umount"
      [] op.name = "cli_remove" -> "remove"

\* The positions of the log where a call of that function returned, in order.
ByIdReturns ==
    SelectSeq([i \in 1..Len(log) |-> i],
              LAMBDA i : log[i].ev = ByIdFunction \o "_returned")

SomeIdNotFound == \E i \in 1..Len(listing) : pre.store[listing[i]] = None

SomeFoundFailed == \E k \in 1..Len(ByIdReturns) : ~log[ByIdReturns[k]].ok

\* Every definition found was worked on, in the order the ids were given.
FoundOnesProcessed ==
    /\ op.defs = DefinitionsToWorkOn(pre.store, listing)
    /\ Len(ByIdReturns) = Len(op.defs)
    /\ \A k \in 1..Len(op.defs) : log[ByIdReturns[k]].d = op.defs[k]

PreflightCommandGroups ==
    <<<<Command(<<"sshfs">>, <<<<"-h">>>>)>>,
      <<Command(<<"ssh">>, <<<<"-V">>>>)>>,
      <<Command(<<"fusermount3">>, <<<<"-V">>>>), Command(<<"fusermount">>, <<<<"-V">>>>)>>>>

\* A PreflightCheckError: its variant and the command or path it carries.
PreflightCheckError(kind, what) == [kind |-> kind, what |-> what]

\* The random test directory under the default mount path.
RandomTestPath == DEFAULT_MOUNT_PATH_PREFIX \o <<"_sftpman_test">>

\* What the probes of a run gave so far: the calls made and the errors kept.
Probed(l, errors) == [log |-> l, errors |-> errors]

\* PreflightGroup, were the errors of failed variants kept when a later one runs.
RECURSIVE PreflightGroupKeepingErrors(_, _, _)
PreflightGroupKeepingErrors(cmd_group, i, cmd_group_errors) ==
    IF i > Len(cmd_group)
    THEN {Probed(<<>>, cmd_group_errors)}
    ELSE LET program == cmd_group[i].program
         IN  {Probed(<<Event("preflight_cmd", NoDefinition, program, TRUE)>>,
                     cmd_group_errors)}
             \cup UNION {{Probed(<<Event("preflight_cmd", NoDefinition, program, FALSE)>>
                                    \o n.log, n.errors)
                          : n \in PreflightGroupKeepingErrors(cmd_group, i + 1,
                                      Append(cmd_group_errors,
                                             PreflightCheckError(k, program)))}
                         : k \in CommandFailures}

\* One alternative group from its i-th command on: the first command that runs
\* ends the group without errors; when none does, every error is kept.
RECURSIVE PreflightGroup(_, _, _)
PreflightGroup(cmd_group, i, cmd_group_errors) ==
    IF i > Len(cmd_group)
    THEN {Probed(<<>>, cmd_group_errors)}
    ELSE LET program == cmd_group[i].program
         IN  {Probed(<<Event("preflight_cmd", NoDefinition, program, TRUE)>>, <<>>)}
             \cup UNION {{Probed(<<Event("preflight_cmd", NoDefinition, program, FALSE)>>
                                    \o n.log, n.errors)
                          : n \in PreflightGroup(cmd_group, i + 1,
                                      Append(cmd_group_errors,
                                             PreflightCheckError(k, program)))}
                         : k \in CommandFailures}

\* The groups from the g-th on, one after the other.
RECURSIVE PreflightGroups(_, _)
PreflightGroups(groups, g) ==
    IF g > Len(groups)
    THEN {Probed(<<>>, <<>>)}
    ELSE UNION {{Probed(a.log \o n.log, a.errors \o n.errors)
                 : n \in PreflightGroups(groups, g + 1)}
                : a \in PreflightGroup(groups[g], 1, <<>>)}

\* The test directory under the default mount path: created, then removed.
PreflightTestDirectory(w) ==
    LET made    == Event("create_dir_all", NoDefinition, RandomTestPath, TRUE)
        notmade == Event("create_dir_all", NoDefinition, RandomTestPath, FALSE)
        error   == <<PreflightCheckError("TestUnderBasePathIO", RandomTestPath)>>
    IN  {[w |-> w, log |-> <<notmade>>, errors |-> error],
         [w |-> w, log |-> <<made, Event("remove_dir", NoDefinition, RandomTestPath, TRUE)>>,
          errors |-> <<>>],
         [w |-> [w EXCEPT !.dirs = @ \cup {RandomTestPath}],
          log |-> <<made, Event("remove_dir", NoDefinition, RandomTestPath, FALSE)>>,
          errors |-> error]}

\* The default mount path and, when it is there, the test directory under it.
PreflightDirectories(w) ==
    LET root == DEFAULT_MOUNT_PATH_PREFIX
    IN  IF root \in w.dirs
        THEN PreflightTestDirectory(w)
        ELSE {[w |-> w,
               log |-> <<Event("create_dir_all", NoDefinition, root, FALSE)>>,
               errors |-> <<PreflightCheckError("DefaultBasePathIO", root)>>]}
             \cup {[w |-> t.w,
                    log |-> <<Event("create_dir_all", NoDefinition, root, TRUE)>> \o t.log,
                    errors |-> t.errors]
                   : t \in PreflightTestDirectory([w EXCEPT !.dirs = @ \cup {root}])}

\* Result<(), Vec<PreflightCheckError>>: Ok exactly when errors is empty.
preflight_check(w) ==
    UNION {{[w |-> dd.w, log |-> c.log \o dd.log, errors |-> c.errors \o dd.errors]
            : dd \in PreflightDirectories(w)}
           : c \in PreflightGroups(PreflightCommandGroups, 1)}

InitPreflight ==
    /\ mtab = <<>>
    /\ dirs = {}
    /\ procs = <<>>
    /\ store = [id \in Ids |-> None]
    /\ cfgdir = FALSE
    /\ op = Idle
    /\ pre = World(<<>>, {}, <<>>, [id \in Ids |-> None], FALSE)
    /\ ret = Ok
    /\ listing = <<>>
    /\ log = <<>>

PreflightCheck ==
    /\ op = Idle
    /\ \E o \in preflight_check(TheWorld) :
           /\ dirs' = o.w.dirs
           /\ op' = Operation("preflight_check", NoDefinition, <<>>)
           /\ pre' = TheWorld
           /\ ret' = IF o.errors = <<>> THEN Ok ELSE Err("PreflightCheckError", "", <<>>)
           /\ listing' = o.errors
           /\ log' = o.log
    /\ UNCHANGED <<mtab, procs, store, cfgdir>>

NextPreflight ==
    \/ PreflightCheck
    \/ Return

SpecPreflight == InitPreflight /\ [][NextPreflight]_vars

PreflightCall == op.name = "preflight_check"

ProbeRun(program) == \E i \in StepsOf("preflight_cmd") : log[i].what = program

ProbeOk(program) == \E i \in StepsOf("preflight_cmd") : log[i].what = program /\ log[i].ok

GroupOk(cmd_group) == \E k \in 1..Len(cmd_group) : ProbeOk(cmd_group[k].program)

DirectoryMade(path) == \E i \in StepsOf("create_dir_all") : log[i].what = path /\ log[i].ok

DirectoryTried(path) == \E i \in StepsOf("create_dir_all") : log[i].what = path

MountRootOk == DEFAULT_MOUNT_PATH_PREFIX \in pre.dirs \/ DirectoryMade(DEFAULT_MOUNT_PATH_PREFIX)

TestDirectoryOk ==
    DirectoryMade(RandomTestPath) /\ \E i \in StepsOf("remove_dir") : log[i].ok

\* The failed calls of the log that count: all but the failed variants of a tool
\* group of which a later variant ran.
CountedFailures ==
    SelectSeq(log, LAMBDA e :
        /\ ~e.ok
        /\ e.ev = "preflight_cmd" =>
               \A g \in 1..Len(PreflightCommandGroups) :
                   (\E k \in 1..Len(PreflightCommandGroups[g]) :
                        PreflightCommandGroups[g][k].program = e.what)
                       => ~GroupOk(PreflightCommandGroups[g]))

\* The error the run must list for a failed call.
ListedFor(e, error) ==
    /\ error.what = e.what
    /\ error.kind \in IF e.ev = "preflight_cmd" THEN CommandFailures
                      ELSE IF e.what = DEFAULT_MOUNT_PATH_PREFIX THEN {"DefaultBasePathIO"}
                      ELSE {"TestUnderBasePathIO"}

\* What the claim says of the tool groups, the verdict and the list of errors.
PreflightGroupsAndVerdict ==
    /\ \A g \in 1..Len(PreflightCommandGroups) :
           LET cmd_group == PreflightCommandGroups[g]
           IN  \A k \in 1..Len(cmd_group) :
                   ProbeRun(cmd_group[k].program) <=>
                       \A j \in 1..(k - 1) :
                           ProbeRun(cmd_group[j].program) /\ ~ProbeOk(cmd_group[j].program)
    /\ DEFAULT_MOUNT_PATH_PREFIX \in pre.dirs \/ DirectoryTried(DEFAULT_MOUNT_PATH_PREFIX)
    /\ IsOk(ret) <=>
           /\ \A g \in 1..Len(PreflightCommandGroups) : GroupOk(PreflightCommandGroups[g])
           /\ MountRootOk
           /\ TestDirectoryOk
    /\ IsOk(ret) <=> listing = <<>>
    /\ Len(listing) = Len(CountedFailures)
    /\ \A i \in 1..Len(listing) : ListedFor(CountedFailures[i], listing[i])

\* C14 as stated: preflight_check makes every check whatever failed before, the
\* test directory included, and returns success iff every tool group has a
\* variant that runs, the mount root is there or was created and the test
\* directory was created and removed, with the errors of the groups that failed
\* entirely and none of a group whose alternate ran.
C14_EveryCheckRegardless ==
    PreflightCall => PreflightGroupsAndVerdict /\ DirectoryTried(RandomTestPath)

\* C14: preflight_check probes every tool group and checks the default mount root
\* whatever failed before, and tries the test directory exactly when the root is
\* there or was created; it returns success iff every tool group has a variant
\* that runs, the root is there or was created and the test directory was created
\* and removed, and it lists, in order, the error of every variant of the groups
\* that failed entirely, none of a group whose alternate ran, and the error of
\* each directory step that failed.
C14_ChecksAndCompleteList ==
    PreflightCall =>
        /\ PreflightGroupsAndVerdict
        /\ DirectoryTried(RandomTestPath) <=> MountRootOk

C14_Witness ==
    /\ PreflightCall
    /\ ~ProbeOk(<<"sshfs">>)
    /\ ~ProbeOk(<<"fusermount3">>) /\ ProbeOk(<<"fusermount">>)
    /\ ~MountRootOk
    /\ ~DirectoryTried(RandomTestPath)
    /\ Len(listing) = 2
    /\ listing[2].kind = "DefaultBasePathIO"
    /\ ~IsOk(ret)

(* ------------- definitions and their records (SpecDefinition) --------- *)

\* to_json_string, were it to write the name of the AuthType variant.
ToJsonStringWithVariantName(d) ==
    [id |-> d.id, host |-> d.host, port |-> d.port, user |-> d.user,
     mountOptions |-> d.mount_options, mountPoint |-> d.remote_path,
     mountDestPath |-> d.mount_dest_path, beforeMount |-> Some(d.cmd_before_mount),
     authType |-> d.auth_type, sshKey |-> Some(d.ssh_key)]

\* The persisted record of d: the fields under their wire names, authType as its
\* token; an Option serializes as null (None) or its value.
to_json_string(d) ==
    [id |-> d.id, host |-> d.host, port |-> d.port, user |-> d.user,
     mountOptions |-> d.mount_options, mountPoint |-> d.remote_path,
     mountDestPath |-> d.mount_dest_path, beforeMount |-> Some(d.cmd_before_mount),
     authType |-> to_static_str(d.auth_type), sshKey |-> Some(d.ssh_key)]

\* serde_json::from_str: beforeMount defaults to the empty string when absent
\* (None); an absent sshKey or an authType that from_string rejects is an error.
from_json_string(r) ==
    LET auth == from_string(r.authType)
    IN  IF auth.kind # "Ok" \/ r.sshKey = None
        THEN [kind |-> "JSON", d |-> NoDefinition]
        ELSE [kind |-> "Ok",
              d |-> [id |-> r.id, host |-> r.host, port |-> r.port, user |-> r.user,
                     mount_options |-> r.mountOptions, remote_path |-> r.mountPoint,
                     mount_dest_path |-> r.mountDestPath,
                     cmd_before_mount |-> IF r.beforeMount = None THEN <<>>
                                          ELSE r.beforeMount[1],
                     auth_type |-> auth.auth_type, ssh_key |-> r.sshKey[1]]]

\* The tokens a record file may carry as authType: the six and a foreign one.
AuthTypeTokens == {to_static_str(a) : a \in AuthTypes} \cup {"PublicKey"}

\* The record files read from the config directory: written by this program or
\* by hand, so with and without the optional fields and with any string values.
RecordFiles ==
    [id : {"a", ""}, host : {"h1"}, port : {22, 2222}, user : {"u"},
     mountOptions : {<<>>, <<"ro">>, <<"rw", "ro">>, <<"ro", "rw">>, <<"ro", "ro">>},
     mountPoint : {<<"/", "data">>},
     mountDestPath : {None, Some(CustomMountPath), Some(<<"rel", "x">>), Some(<<>>)},
     beforeMount : {None, Some(<<>>), Some(<<"prep">>), Some(<<"true">>),
                    Some(<<"/bin/true">>), Some(<<"prep", " ", "x">>),
                    Some(<<" ", "prep">>), Some(<<"true", " ", "x">>),
                    Some(<<"prep", " ", " ", "x">>)},
     authType : AuthTypeTokens,
     sshKey : {None, Some(<<>>), Some(<<"/", "k">>)}]

\* Manager::definition_from_config_path on every record file that parses.
LoadedDefinitions ==
    {from_json_string(r).d : r \in {f \in RecordFiles : from_json_string(f).kind = "Ok"}}

InitDefinition ==
    /\ mtab = <<>>
    /\ dirs = {}
    /\ procs = <<>>
    /\ store = [id \in Ids |-> None]
    /\ cfgdir = FALSE
    /\ op = Idle
    /\ pre = World(<<>>, {}, <<>>, [id \in Ids |-> None], FALSE)
    /\ ret = Ok
    /\ listing = <<>>
    /\ log = <<>>

\* A function of a definition was applied to d: `r` is its Result, `l` its list.
Applied(name, d, r, l) ==
    /\ op' = Operation(name, d, <<>>)
    /\ pre' = TheWorld
    /\ ret' = r
    /\ listing' = l
    /\ log' = <<>>
    /\ UNCHANGED <<mtab, dirs, procs, store, cfgdir>>

LocalMountPath ==
    /\ op = Idle
    /\ \E d \in LoadedDefinitions :
           Applied("local_mount_path", d,
                   Result("Ok", TRUE, "", local_mount_path(d), "", ""), <<>>)

\* A path string that starts with '/'.
IsAbsolute(path) == path # <<>> /\ path[1] = "/"

\* C15 as stated: for every definition the local mount path is mount_dest_path
\* when set and otherwise DEFAULT_MOUNT_PATH_PREFIX, '/', id, and it is absolute.
C15_LocalMountPathAbsolute ==
    op.name = "local_mount_path" =>
        /\ op.d.mount_dest_path # None => ret.path = op.d.mount_dest_path[1]
        /\ op.d.mount_dest_path = None => ret.path = <<"/", "mnt", "sshfs", op.d.id>>
        /\ IsAbsolute(ret.path)

\* The characters of an id; the ids here have at most one.
CharactersOf(id) == IF id = "" THEN {} ELSE {id}

\* c.is_alphanumeric() || c == '_' || c == '-' || c == '.', on the characters used.
IdentifierCharacters == {"a", "b", "_", "-", "."}

validate_id(id) == \A c \in CharactersOf(id) : c \in IdentifierCharacters

validate_absolute_path(path) == path # <<>> /\ path[1] = "/"

\* ValidateSshKeyForPublickeyAuth, were every authentication type to need a key.
ValidateSshKeyForEveryAuth(entity) == entity.ssh_key # <<>>

\* validate_ssh_key_for_publickey_auth: TRUE for Ok(()).
ValidateSshKeyForPublickeyAuth(entity) ==
    IF entity.auth_type = "PublicKey" THEN entity.ssh_key # <<>> ELSE TRUE

\* The code of the schema-level error.
NoSshKeyForPublickeyAuth == "no_ssh_key_for_publickey_auth"

\* #[derive(Validate)]: every field check and, whatever they give
\* (skip_on_field_errors = false), the schema check; the codes of those that fail.
validate(d) ==
    LET checks ==
            <<[code |-> "length:id", ok |-> d.id # ""],
              [code |-> "invalid_id", ok |-> validate_id(d.id)],
              [code |-> "length:host", ok |-> d.host # ""],
              [code |-> "length:user", ok |-> d.user # ""],
              [code |-> "length:remote_path", ok |-> d.remote_path # <<>>],
              [code |-> "not_absolute_path:remote_path",
               ok |-> validate_absolute_path(d.remote_path)],
              [code |-> "length:mount_dest_path",
               ok |-> d.mount_dest_path # None => d.mount_dest_path[1] # <<>>],
              [code |-> "not_absolute_path:mount_dest_path",
               ok |-> d.mount_dest_path # None =>
                          validate_absolute_path(d.mount_dest_path[1])],
              [code |-> NoSshKeyForPublickeyAuth,
               ok |-> ValidateSshKeyForPublickeyAuth(d)]>>
        failed == SelectSeq(checks, LAMBDA c : ~c.ok)
    IN  [i \in 1..Len(failed) |-> failed[i].code]

Validate ==
    /\ op = Idle
    /\ \E d \in LoadedDefinitions :
           LET errors == validate(d)
           IN  Applied("validate", d,
                       IF errors = <<>> THEN Ok ELSE Err("ValidationErrors", "", <<>>),
                       errors)

SchemaCheckFailed == \E i \in 1..Len(listing) : listing[i] = NoSshKeyForPublickeyAuth

\* C16: validation of a definition with auth_type PublicKey and an empty ssh_key
\* fails, with the schema-level error among its errors whatever the field checks
\* gave; for every other auth_type, whatever the ssh_key, and for PublicKey with
\* a non-empty ssh_key, the schema-level error is not among them.
C16_SshKeyForPublicKey ==
    op.name = "validate" =>
        IF op.d.auth_type = "PublicKey" /\ op.d.ssh_key = <<>>
        THEN ~IsOk(ret) /\ SchemaCheckFailed
        ELSE ~SchemaCheckFailed

C16_Witness ==
    /\ op.name = "validate"
    /\ op.d.auth_type = "Password"
    /\ op.d.ssh_key = <<>>
    /\ op.d.mount_dest_path = Some(<<"rel", "x">>)
    /\ ~SchemaCheckFailed
    /\ ~IsOk(ret)

\* A definition written to its record and read back.
RoundTrip ==
    /\ op = Idle
    /\ \E d \in LoadedDefinitions :
           LET back == from_json_string(to_json_string(d))
           IN  Applied("round_trip", d,
                       IF back.kind = "Ok" THEN Ok ELSE Err("JSON", "", <<>>),
                       <<back>>)

\* AuthType::from_string on a token; the token and what it gave.
FromString ==
    /\ op = Idle
    /\ \E s \in AuthTypeTokens :
           LET auth == from_string(s)
           IN  Applied("from_string", NoDefinition,
                       IF auth.kind = "Ok" THEN Ok ELSE Err("JSON", "", <<>>),
                       <<s, auth>>)

\* The six tokens of the record format.
SixTokens ==
    {"publickey", "authentication-agent", "password", "keyboard-interactive",
     "hostbased", "gssapi-with-mic"}

\* C17: a valid definition written to its record and read back is the same
\* definition in every field (mount_options with its order and duplicates, an
\* absent mount_dest_path, auth_type); the six tokens and the six auth types map
\* one to one, and from_string rejects every other token.
C17_RoundTrip ==
    /\ op.name = "round_trip" /\ validate(op.d) = <<>> =>
           IsOk(ret) /\ listing[1].kind = "Ok" /\ listing[1].d = op.d
    /\ op.name = "from_string" =>
           /\ IsOk(ret) <=> listing[1] \in SixTokens
           /\ IsOk(ret) => to_static_str(listing[2].auth_type) = listing[1]
           /\ \A a \in AuthTypes :
                  /\ to_static_str(a) \in SixTokens
                  /\ from_string(to_static_str(a)).auth_type = a
                  /\ to_static_str(a) = listing[1] => listing[2].auth_type = a
    /\ Cardinality(AuthTypes) = 6 /\ Cardinality(SixTokens) = 6

C17_Witness ==
    /\ op.name = "round_trip"
    /\ validate(op.d) = <<>>
    /\ op.d.mount_options = <<"ro", "ro">>
    /\ op.d.mount_dest_path = None
    /\ op.d.auth_type = "GSSAPIWithMic"
    /\ listing[1].d = op.d

C17_WitnessRejected ==
    /\ op.name = "from_string"
    /\ listing[1] = "PublicKey"
    /\ ~IsOk(ret)

\* The most calls of mount_commands followed in a row.
MaxCalls == 3

\* A second definition for the calls that come in between.
OtherDefinition == PlainDefinition("b")

\* The worlds other operations may have left behind: for each set of ids, their
\* records stored, their filesystems mounted and their helpers running.
OtherWorlds ==
    {World(w.mtab, w.dirs, w.procs,
           [id \in Ids |-> IF \E i \in 1..Len(w.mtab) :
                                  w.mtab[i].file = local_mount_path(PlainDefinition(id))
                           THEN Some(PlainDefinition(id)) ELSE None],
           TRUE)
     : w \in KillWorlds}

\* One call of mount_commands and what it returned, in the world it was made in.
Built(d, w, r) == [d |-> d, world |-> w, kind |-> r.kind, cmds |-> r.cmds]

\* d.mount_commands(), first on one of defs and then again, on the same
\* definition or on another one; listing keeps the calls made so far.
MountCommandsOf(defs) ==
    /\ \/ op = Idle
       \/ op.name = "mount_commands" /\ Len(listing) < MaxCalls
    /\ \E d \in (IF op = Idle THEN defs ELSE {listing[1].d, OtherDefinition}) :
           LET r == mount_commands(d)
           IN  /\ op' = Operation("mount_commands", d, <<>>)
               /\ pre' = TheWorld
               /\ ret' = IF r.kind = "Ok" THEN Ok ELSE Err(r.kind, "", <<>>)
               /\ listing' = Append(listing, Built(d, TheWorld, r))
               /\ UNCHANGED <<mtab, dirs, procs, store, cfgdir, log>>

MountCommands == MountCommandsOf(LoadedDefinitions)

\* The definitions whose commands are built again and again: id "a" with every
\* before-mount command, with and without a mount_dest_path, two auth types.
CommandDefinitions ==
    {d \in LoadedDefinitions :
        /\ d.id = "a" /\ d.port = 22 /\ d.mount_options = <<"ro">>
        /\ d.mount_dest_path \in {None, Some(CustomMountPath)}
        /\ d.auth_type \in {"PublicKey", "Password"}
        /\ d.ssh_key # <<>>}

MountCommandsAgain == MountCommandsOf(CommandDefinitions)

\* Between two calls, other operations change the mount table, the processes
\* and the stored records.
Elsewhere ==
    /\ op.name = "mount_commands"
    /\ pre = TheWorld
    /\ Len(listing) < MaxCalls
    /\ \E w \in OtherWorlds :
           /\ w # TheWorld
           /\ mtab' = w.mtab
           /\ dirs' = w.dirs
           /\ procs' = w.procs
           /\ store' = w.store
           /\ cfgdir' = w.cfgdir
    /\ UNCHANGED <<op, pre, ret, listing, log>>

LastBuilt == listing[Len(listing)]

SshfsBuilt == LastBuilt.cmds[Len(LastBuilt.cmds)]

SshClause == SshfsBuilt.args[2 * Len(op.d.mount_options) + 2]

\* The clause up to its authentication part, and that part.
SshClauseBase(d) ==
    <<"ssh_command=", "ssh", " ", "-p", " ", ToString(d.port), " ", "-o", " ",
      "ConnectTimeout=", "10">>

SshClauseAuth == SubSeq(SshClause, Len(SshClauseBase(op.d)) + 1, Len(SshClause))

HasToken(s, t) == \E i \in 1..Len(s) : s[i] = t

\* C19: the SSH clause built for a definition carries the port and the
\* 10-second connect timeout, and what follows depends on auth_type only:
\* PublicKey gives PreferredAuthentications=publickey and the identity file;
\* AuthenticationAgent gives nothing; every other type gives
\* PreferredAuthentications=<its token> and no identity option.
C19_SshClause ==
    op.name = "mount_commands" /\ IsOk(ret) =>
        /\ SubSeq(SshClause, 1, Len(SshClauseBase(op.d))) = SshClauseBase(op.d)
        /\ SshClauseAuth =
               CASE op.d.auth_type = "PublicKey" ->
                        <<" ", "-o PreferredAuthentications=", "publickey", " ", "-i ">>
                            \o op.d.ssh_key
                 [] op.d.auth_type = "AuthenticationAgent" -> <<>>
                 [] OTHER ->
                        <<" ", "-o PreferredAuthentications=", to_static_str(op.d.auth_type)>>
        /\ op.d.auth_type # "PublicKey" => ~HasToken(SshClause, "-i ")
        /\ op.d.auth_type = "AuthenticationAgent" =>
               ~HasToken(SshClause, "-o PreferredAuthentications=")

C19_Witness ==
    /\ op.name = "mount_commands"
    /\ IsOk(ret)
    /\ op.d.auth_type = "AuthenticationAgent"
    /\ op.d.ssh_key # <<>>
    /\ op.d.port = 2222
    /\ SshClause = SshClauseBase(op.d)

\* C20: the sshfs command built for a definition has, in this order, "-o" and
\* the option for each entry of mount_options in list order (nothing for an empty
\* list), "-o" and ssh_command=<the ssh invocation>, the connection target
\* user@[host]:remote_path, and last the effective local mount path; it is the
\* last command of the returned list.
C20_SshfsArguments ==
    op.name = "mount_commands" /\ IsOk(ret) =>
        LET n    == Len(op.d.mount_options)
            cmds == LastBuilt.cmds
            args == cmds[Len(cmds)].args
        IN  /\ cmds[Len(cmds)].program = <<"sshfs">>
            /\ \A i \in 1..(Len(cmds) - 1) : cmds[i].program # <<"sshfs">>
            /\ Len(args) = 2 * n + 4
            /\ \A i \in 1..n :
                   args[2 * i - 1] = <<"-o">> /\ args[2 * i] = <<op.d.mount_options[i]>>
            /\ args[2 * n + 1] = <<"-o">>
            /\ args[2 * n + 2] = <<"ssh_command=">> \o command_to_string(SshCommand(op.d))
            /\ SubSeq(args[2 * n + 2], 1, 3) = <<"ssh_command=", "ssh", " ">>
            /\ args[2 * n + 3] =
                   <<op.d.user, "@[", op.d.host, "]:">> \o op.d.remote_path
            /\ args[2 * n + 4] =
                   IF op.d.mount_dest_path # None THEN op.d.mount_dest_path[1]
                   ELSE <<"/", "mnt", "sshfs", op.d.id>>

C20_Witness ==
    /\ op.name = "mount_commands"
    /\ IsOk(ret)
    /\ op.d.mount_options = <<"rw", "ro">>
    /\ op.d.mount_dest_path = None
    /\ Len(LastBuilt.cmds) = 2
    /\ LastBuilt.cmds[1] = Command(<<"prep">>, <<<<"x">>>>)
    /\ SubSeq(SshfsBuilt.args, 1, 5) = <<<<"-o">>, <<"rw">>, <<"-o">>, <<"ro">>, <<"-o">>>>
    /\ SshfsBuilt.args[8] = <<"/", "mnt", "sshfs", op.d.id>>

\* The before-mount commands that mount_commands leaves out.
NoOpBeforeMount == {<<>>, <<"/bin/true">>, <<"true">>}

HasSpace(word) == \E i \in 1..Len(word) : word[i] = " "

\* C29: mount_commands returns the sshfs command alone when cmd_before_mount is
\* empty or is exactly "/bin/true" or "true"; otherwise it splits
\* cmd_before_mount at every single space into a program and its arguments and
\* returns that command first and the sshfs command second; when the program
\* part is empty it fails with MountCommandBuilding and returns no command.
C29_BeforeMountCommand ==
    op.name = "mount_commands" =>
        LET before == op.d.cmd_before_mount
            cmds   == LastBuilt.cmds
        IN  IF before \in NoOpBeforeMount
            THEN IsOk(ret) /\ Len(cmds) = 1 /\ cmds[1].program = <<"sshfs">>
            ELSE IF before[1] = " "
            THEN ret.kind = "MountCommandBuilding" /\ cmds = <<>>
            ELSE /\ IsOk(ret)
                 /\ Len(cmds) = 2
                 /\ cmds[2].program = <<"sshfs">>
                 /\ cmds[1].program # <<>> /\ ~HasSpace(cmds[1].program)
                 /\ \A k \in 1..Len(cmds[1].args) : ~HasSpace(cmds[1].args[k])
                 /\ command_to_string(cmds[1]) = before

C29_Witness ==
    /\ op.name = "mount_commands"
    /\ op.d.cmd_before_mount = <<"prep", " ", " ", "x">>
    /\ IsOk(ret)
    /\ LastBuilt.cmds[1] = Command(<<"prep">>, <<<<>>, <<"x">>>>)
    /\ LastBuilt.cmds[2].program = <<"sshfs">>

C29_WitnessNoProgram ==
    /\ op.name = "mount_commands"
    /\ op.d.cmd_before_mount = <<" ", "prep">>
    /\ ret.kind = "MountCommandBuilding"

\* get_fusermount_command, given what FUSERMOUNT3_AVAILABLE holds.
get_fusermount_command(fusermount3_available) ==
    IF fusermount3_available THEN <<"fusermount3">> ELSE <<"fusermount">>

\* d.umount_commands() on a system with or without fusermount3; listing keeps
\* which it was, what get_fusermount_command gives there and the commands built.
UmountCommands ==
    /\ op = Idle
    /\ \E d \in LoadedDefinitions, available \in BOOLEAN :
           Applied("umount_commands", d, Ok,
                   <<[fusermount3 |-> available,
                      helper |-> get_fusermount_command(available),
                      cmds |-> umount_commands(d).cmds]>>)

\* C21: unmounting builds exactly one command, the unmount helper with "-u" and
\* the effective local mount path, the helper being fusermount3 when fusermount3
\* is available and fusermount otherwise.
C21_UmountHelperPreferred ==
    op.name = "umount_commands" =>
        /\ Len(listing[1].cmds) = 1
        /\ listing[1].cmds[1].args = <<<<"-u">>, local_mount_path(op.d)>>
        /\ listing[1].cmds[1].program =
               IF listing[1].fusermount3 THEN <<"fusermount3">> ELSE <<"fusermount">>

NextDefinition ==
    \/ LocalMountPath
    \/ Validate
    \/ RoundTrip
    \/ FromString
    \/ MountCommands
    \/ UmountCommands
    \/ Return

SpecDefinition == InitDefinition /\ [][NextDefinition]_vars

NextCommands ==
    \/ MountCommandsAgain
    \/ Elsewhere
    \/ Return

SpecCommands == InitDefinition /\ [][NextCommands]_vars

(* ------------------ the process inspector (SpecInspect) --------------- *)

\* The most processes enumerated.
MaxListed == 3

\* The definition of id "a" on the second host: another connection target.
ElsewhereDefinition ==
    CHOOSE d \in FilesystemMountDefinition : d.id = "a" /\ d.host = "h2"

\* The command lines a process may have: the mount helper of either connection
\* target, another program with a connection target among its arguments, sshfs
\* without arguments, and one that cannot be read.
Cmdlines ==
    {<<SshfsCommand(PlainDefinition("a")).program>> \o SshfsCommand(PlainDefinition("a")).args,
     <<SshfsCommand(ElsewhereDefinition).program>> \o SshfsCommand(ElsewhereDefinition).args,
     <<<<"ssh">>, ConnectionTarget(PlainDefinition("a"))>>,
     <<<<"sshfs">>>>,
     CmdlineUnreadable}

InitInspect ==
    /\ mtab = <<>>
    /\ dirs = {}
    /\ \E n \in 0..MaxListed :
           \E lines \in [1..n -> Cmdlines] :
               procs = [i \in 1..n |-> Process(i, lines[i], <<>>)]
    /\ store = [id \in Ids |-> None]
    /\ cfgdir = FALSE
    /\ op = Idle
    /\ pre = World(<<>>, {}, procs, store, FALSE)
    /\ ret = Ok
    /\ listing = <<>>
    /\ log = <<>>

\* One call; listing keeps the pid returned, 0 for none.
SshfsPidByDefinition ==
    /\ op = Idle
    /\ \E d \in {PlainDefinition("a"), ElsewhereDefinition} :
           \E f \in sshfs_pid_by_definition(TheWorld, d) :
               Applied("sshfs_pid_by_definition", d,
                       IF f.kind = "Ok" THEN Ok ELSE Err(f.kind, f.src, <<>>),
                       <<f.pid>>)

NextInspect ==
    \/ SshfsPidByDefinition
    \/ Return

SpecInspect == InitInspect /\ [][NextInspect]_vars

\* The positions of the processes that are the mount helper with the connection
\* target of the call's definition among their arguments.
HelpersListed ==
    {i \in 1..Len(procs) :
        /\ procs[i].cmdline # CmdlineUnreadable
        /\ procs[i].cmdline[1] = <<"sshfs">>
        /\ \E k \in 2..Len(procs[i].cmdline) :
               procs[i].cmdline[k] =
                   <<op.d.user, "@[", op.d.host, "]:">> \o op.d.remote_path}

\* C28: sshfs_pid_by_definition returns the pid of the first process enumerated
\* whose program is sshfs and one of whose arguments equals user@[host]:remote_path
\* of the definition; none when no process is such; it fails only when the
\* enumeration fails, a process whose command line cannot be read being skipped.
C28_FirstHelperFound ==
    op.name = "sshfs_pid_by_definition" =>
        /\ IsOk(ret) /\ HelpersListed # {} =>
               /\ listing[1] \in {procs[i].pid : i \in HelpersListed}
               /\ \A i \in HelpersListed : listing[1] <= procs[i].pid
        /\ IsOk(ret) /\ HelpersListed = {} => listing[1] = 0
        /\ ~IsOk(ret) => ret = Err("Generic", "failed to list processes", <<>>)

C28_Witness ==
    /\ op.name = "sshfs_pid_by_definition"
    /\ Len(procs) = 3
    /\ procs[1].cmdline = CmdlineUnreadable
    /\ procs[2].cmdline[1] = <<"ssh">>
    /\ HelpersListed = {3}
    /\ IsOk(ret)
    /\ listing[1] = 3

(* ------------- two mount(d) calls at the same time (SpecRace) ---------- *)

\* The manager takes no lock: each call of mount(d) goes through its steps on
\* its own, and the steps of two calls interleave. listing[i] is where call i is
\* and what it returned (or will return, once a mount command has failed).
Invocations == {1, 2}

Invocation(pc, cmd, r) == [pc |-> pc, cmd |-> cmd, ret |-> r]

RaceDefinitions ==
    {d \in FilesystemMountDefinition :
        d.id = "a" /\ d.host = "h1" /\ d.mount_dest_path = None}

InitRace ==
    /\ \E d \in RaceDefinitions :
           /\ store = [id \in Ids |-> IF id = d.id THEN Some(d) ELSE None]
           /\ op = Operation("mount", d, <<>>)
           /\ dirs \in SUBSET {local_mount_path(d)}
    /\ mtab = <<>>
    /\ procs = <<>>
    /\ cfgdir = TRUE
    /\ pre = TheWorld
    /\ ret = Ok
    /\ listing = [i \in Invocations |-> Invocation("is_definition_mounted", 1, Ok)]
    /\ log = <<>>

\* Call i made a step with outcome o and is at pc next.
Stepped(i, o, pc, cmd, r) ==
    /\ Faults(log \o o.log) <= MaxFaults
    /\ mtab' = o.w.mtab
    /\ dirs' = o.w.dirs
    /\ procs' = o.w.procs
    /\ log' = log \o o.log
    /\ listing' = [listing EXCEPT ![i] = Invocation(pc, cmd, r)]
    /\ UNCHANGED <<store, cfgdir, op, pre, ret>>

At(i, pc) == op.name = "mount" /\ Len(listing) = 2 /\ listing[i].pc = pc

\* mount, line 135: the mount table is read.
MountCheck(i) ==
    /\ At(i, "is_definition_mounted")
    /\ \E t \in MountTableReads(mtab) :
           LET mounted == is_definition_mounted(t, op.d)
               o       == Outcome(TheWorld, ReadFailure(t), mounted)
           IN  IF ~IsOk(mounted) THEN Stepped(i, o, "done", 1, mounted)
               ELSE IF mounted.val THEN Stepped(i, o, "done", 1, Ok)
               ELSE Stepped(i, o, "ensure_directory_recursively_created", 1, Ok)

\* mount, line 142: the local mount directory is made.
MountMakeDirectory(i) ==
    /\ At(i, "ensure_directory_recursively_created")
    /\ \E o \in ensure_directory_recursively_created(
                    TheWorld, op.d, local_mount_path(op.d)) :
           IF IsOk(o.ret) THEN Stepped(i, o, "run_command", 1, Ok)
           ELSE Stepped(i, o, "done", 1, o.ret)

\* mount, line 149: the next mount command runs. The mount helper does not
\* mount over a mount: on a path that is mounted already it fails and leaves
\* nothing.
MountRunCommand(i) ==
    /\ At(i, "run_command")
    /\ LET cmds == mount_commands(op.d).cmds
           k    == listing[i].cmd
       IN  \E o \in RunMountCommand(TheWorld, op.d, cmds[k]) :
               /\ cmds[k].program = <<"sshfs">>
                      /\ HasEntryAt(mtab, local_mount_path(op.d))
                      => o.w = TheWorld
               /\ IF ~IsOk(o.ret) THEN Stepped(i, o, "umount", k, o.ret)
                  ELSE IF k < Len(cmds) THEN Stepped(i, o, "run_command", k + 1, Ok)
                  ELSE Stepped(i, o, "done", k, Ok)

\* mount, line 161: the cleanup unmount after a failed command; its own result
\* is logged only.
MountCleanupUmount(i) ==
    /\ At(i, "umount")
    /\ \E u \in umount(TheWorld, op.d) :
           Stepped(i, Outcome(u.w, u.log \o <<Returned("umount", op.d, u.ret)>>, u.ret),
                   "clean_up_after_unmount", listing[i].cmd, listing[i].ret)

\* mount, lines 169-171: the directory is removed and the command's error returned.
MountCleanUp(i) ==
    /\ At(i, "clean_up_after_unmount")
    /\ \E c \in clean_up_after_unmount(TheWorld, op.d) :
           Stepped(i, c, "done", listing[i].cmd, listing[i].ret)

NextRace ==
    \E i \in Invocations :
        \/ MountCheck(i)
        \/ MountMakeDirectory(i)
        \/ MountRunCommand(i)
        \/ MountCleanupUmount(i)
        \/ MountCleanUp(i)

SpecRace == InitRace /\ [][NextRace]_vars

RaceOver == \A i \in Invocations : At(i, "done")

\* The mount helper of some call started and stayed: that call returned success.
HelperSucceeded ==
    \E k \in StepsOf("mount_cmd") : log[k].what = <<"sshfs">> /\ log[k].ok

\* C34: once two interleaved calls of mount(d) have both returned, one of them
\* with success after its mount helper started, d is mounted: the cleanup unmount
\* of the call whose command failed does not take away the mount the other made.
C34_RaceKeepsSuccessfulMount ==
    RaceOver /\ HelperSucceeded /\ (\E i \in Invocations : IsOk(listing[i].ret))
        => is_definition_mounted(Readable(mtab), op.d) = OkBool(TRUE)

(* ------ mount with a before-mount command of any shape (SpecBefore) ----- *)

\* One stored definition whose before-mount command is absent, a program name,
\* or a string that begins with a space; its mount directory exists or not.
BeforeDefinitions ==
    {[PlainDefinition("a") EXCEPT !.cmd_before_mount = c]
     : c \in {<<>>, <<"prep">>, <<" ", "prep">>}}

InitBefore ==
    /\ \E d \in BeforeDefinitions :
           store = [id \in Ids |-> IF id = d.id THEN Some(d) ELSE None]
    /\ dirs \in SUBSET {local_mount_path(PlainDefinition("a"))}
    /\ mtab = <<>>
    /\ procs = <<>>
    /\ cfgdir = TRUE
    /\ op = Idle
    /\ pre = TheWorld
    /\ ret = Ok
    /\ listing = <<>>
    /\ log = <<>>

NextBefore ==
    \/ Mount
    \/ Umount
    \/ Return

SpecBefore == InitBefore /\ [][NextBefore]_vars

\* mount was called on an unmounted definition whose before-mount command has no
\* program name, read the mount table and had its directory.
MountOfUnbuildable ==
    /\ op.name = "mount"
    /\ WasUnmounted(op.d)
    /\ mount_commands(op.d).kind = "MountCommandBuilding"
    /\ NoReadFailure
    /\ \A i \in Steps("mkdir", op.d) : log[i].ok

\* C35: mount(d) on an unmounted definition whose before-mount command cannot be
\* taken apart (it begins with a space) returns the command-building error, runs
\* no command, and leaves no local mount directory that was not there before.
C35_UnbuildableCommandIsAnError ==
    MountOfUnbuildable =>
        /\ ret.kind = "MountCommandBuilding"
        /\ StepsOf("mount_cmd") = {}
        /\ local_mount_path(op.d) \in dirs => local_mount_path(op.d) \in pre.dirs

(* ------------------ cli/create_update.rs (SpecCreate) ------------------ *)

\* FilesystemMountDefinition { id, ..Default::default() }
DefaultDefinition(id) ==
    [NoDefinition EXCEPT !.id = id, !.port = 22, !.auth_type = "PublicKey"]

\* The arguments of create and update as clap hands them over: each one given
\* (possibly as the empty string) or not. mount_opt is the list of the pieces
\* between its commas.
Arguments ==
    [id : Ids, host : {None, Some("h1"), Some("")}, port : {None},
     user : {None, Some("u")}, mount_opt : {None, Some(<<"ro", "">>)},
     remote_path : {None, Some(<<"/", "data">>)},
     mount_path : {None, Some(<<>>), Some(CustomMountPath)},
     auth_type : {None, Some("PublicKey"), Some("Password")},
     ssh_key : {None, Some(<<"/", "k">>)}, cmd_before_mount : {None}]

\* build_create: host, user, remote_path and auth_type are required, ssh_key is
\* required with the publickey auth_type. Here without mount options.
CreateArguments ==
    {m \in Arguments :
        /\ m.host # None /\ m.user # None /\ m.remote_path # None
        /\ m.auth_type # None /\ m.mount_opt = None
        /\ m.auth_type = Some("PublicKey") => m.ssh_key # None}

\* build_update: only the id is required. Here user and remote path stay.
UpdateArguments == {m \in Arguments : m.user = None /\ m.remote_path = None}

bind_command_arguments_to_definition(matches, d, is_new) ==
    LET Given(arg, field) == IF arg # None THEN arg[1] ELSE field
        auth_type == Given(matches.auth_type, d.auth_type)
    IN  [id |-> d.id,
         host |-> Given(matches.host, d.host),
         port |-> Given(matches.port, d.port),
         user |-> Given(matches.user, d.user),
         mount_options |-> IF matches.mount_opt # None
                           THEN SelectSeq(matches.mount_opt[1], LAMBDA v : v # "")
                           ELSE d.mount_options,
         remote_path |-> Given(matches.remote_path, d.remote_path),
         mount_dest_path |-> IF matches.mount_path = None THEN d.mount_dest_path
                             ELSE IF matches.mount_path[1] = <<>> THEN None
                             ELSE Some(matches.mount_path[1]),
         cmd_before_mount |-> Given(matches.cmd_before_mount, d.cmd_before_mount),
         auth_type |-> auth_type,
         ssh_key |-> IF matches.ssh_key # None THEN matches.ssh_key[1]
                     ELSE IF ~is_new /\ auth_type # "PublicKey" THEN <<>>
                     ELSE d.ssh_key]

\* create and update after the lookup: bind, validate, persist.
ValidateAndPersist(w, d) ==
    IF validate(d) # <<>>
    THEN {Outcome(w, <<>>, ExitStatus("ValidationFailure"))}
    ELSE {Outcome(o.w, <<Event("persist", d, <<d.id>>, TRUE)>> \o o.log,
                  ExitStatus(IF IsOk(o.ret) THEN "Success" ELSE "Failure"))
          : o \in persist(w, d)}

create(w, id, matches) ==
    ValidateAndPersist(w, bind_command_arguments_to_definition(
                              matches, DefaultDefinition(id), TRUE))

run_create(w, matches) ==
    LET found == definition(w.store, matches.id)
    IN  IF found.kind = "Ok"
        THEN {Outcome(w, <<>>, ExitStatus("DefinitionAlreadyExists"))}
        ELSE IF found.kind = "JSON"
        THEN {Outcome(w, <<>>, ExitStatus("Failure"))}
        ELSE create(w, matches.id, matches)

update(w, d, matches) ==
    ValidateAndPersist(w, bind_command_arguments_to_definition(matches, d, FALSE))

run_update(w, matches) ==
    LET found == definition(w.store, matches.id)
    IN  IF found.kind = "Ok"
        THEN update(w, found.d, matches)
        ELSE {Outcome(w, <<>>, ExitStatus("DefinitionNotFound"))}

\* What is in the storage directory when the command starts: under "a" nothing, a
\* record (mounted or not), or a file that does not read or does not parse; under
\* "b" nothing or a record.
InitCreate ==
    /\ \E fa \in {None, Some(PlainDefinition("a")), Some(UnreadableFile),
                  Some(UnparsableFile)} :
       \E fb \in {None, Some(PlainDefinition("b"))} :
           /\ store = [id \in Ids |-> IF id = "a" THEN fa ELSE fb]
           /\ cfgdir \in (IF fa = None /\ fb = None THEN BOOLEAN ELSE {TRUE})
           /\ \E mounted \in (IF fa = Some(PlainDefinition("a")) THEN BOOLEAN ELSE {FALSE}) :
                  /\ mtab = IF mounted
                            THEN <<MountEntry(local_mount_path(PlainDefinition("a")),
                                              VFS_TYPE_SSHFS)>>
                            ELSE <<>>
                  /\ dirs = IF mounted THEN {local_mount_path(PlainDefinition("a"))}
                            ELSE {}
                  /\ procs = IF mounted THEN <<HelperOf(1, PlainDefinition("a"))>>
                             ELSE <<>>
    /\ op = Idle
    /\ pre = TheWorld
    /\ ret = Ok
    /\ listing = <<>>
    /\ log = <<>>

\* The command `name` ran with arguments matches and outcome o.
RanCommand(name, matches, o) ==
    /\ mtab' = o.w.mtab
    /\ dirs' = o.w.dirs
    /\ procs' = o.w.procs
    /\ store' = o.w.store
    /\ cfgdir' = o.w.cfgdir
    /\ op' = Operation(name, NoDefinition, <<>>)
    /\ pre' = TheWorld
    /\ ret' = o.ret
    /\ listing' = <<matches>>
    /\ log' = o.log

RunCreate ==
    /\ op = Idle
    /\ \E matches \in CreateArguments :
           \E o \in run_create(TheWorld, matches) : RanCommand("run_create", matches, o)

RunUpdate ==
    /\ op = Idle
    /\ \E matches \in UpdateArguments :
           \E o \in run_update(TheWorld, matches) : RanCommand("run_update", matches, o)

NextCreate ==
    \/ RunCreate
    \/ RunUpdate

SpecCreate == InitCreate /\ [][NextCreate]_vars

\* The record file under the command's id when it started, and whether it loaded.
FileBefore == pre.store[listing[1].id]

LoadedBefore == definition(pre.store, listing[1].id).kind = "Ok"

PersistCalled == StepsOf("persist") # {}

\* The definition the command ends up with: the arguments bound to the default
\* definition (create) or to the stored one (update).
Resulting ==
    IF op.name = "run_create"
    THEN bind_command_arguments_to_definition(
             listing[1], DefaultDefinition(listing[1].id), TRUE)
    ELSE bind_command_arguments_to_definition(listing[1], FileBefore[1], FALSE)

\* C39: create never changes an existing record: with a record file present under
\* the id, parsable, unparsable or unreadable, it returns DefinitionAlreadyExists
\* or Failure without calling persist. A create on a free id or an update of a
\* loadable record whose resulting definition fails validation returns
\* ValidationFailure and writes nothing; an update on an id with no loadable
\* record returns DefinitionNotFound and writes nothing.
C39_CreateKeepsExistingRecords ==
    /\ op.name = "run_create" /\ FileBefore # None =>
           /\ ret.kind \in {"DefinitionAlreadyExists", "Failure"}
           /\ ~PersistCalled
           /\ store = pre.store
    /\ /\ \/ op.name = "run_create" /\ FileBefore = None
          \/ op.name = "run_update" /\ LoadedBefore
       /\ validate(Resulting) # <<>>
       => ret.kind = "ValidationFailure" /\ ~PersistCalled /\ store = pre.store
    /\ op.name = "run_update" /\ ~LoadedBefore =>
           ret.kind = "DefinitionNotFound" /\ ~PersistCalled /\ store = pre.store

====
